---- MODULE Spec2Model ----
(***************************************************************************)
(* Feature aggregation pipeline of rapid-street-assessments:               *)
(* process_single_collection (backend/api and the legacy backend/robyn_lib *)
(* variant) together with the OSDataObject fetcher it drives.              *)
(*                                                                         *)
(* Python values are modelled as records tagged with their Python type in  *)
(* the field py: a dict is [py |-> "dict", items |-> <record of its keys>],*)
(* a list is [py |-> "list", elems |-> <sequence>], an exception instance  *)
(* is [py |-> "Exception"], None inside JSON is [py |-> "NoneType"].  A    *)
(* Python str that is compared with < or > (the timeStamp) is a sequence   *)
(* of character codes, so the comparison is the lexicographic one Python   *)
(* performs.                                                               *)
(***************************************************************************)
EXTENDS Integers, Sequences, FiniteSets, TLC

\* ------------------------------------------------------------------ bounds
\* number of distinct roadlink ids a street feature may reference
MaxRoadlinks == 2
\* stored geometries have coordinates 0 .. MaxCoord, in units of 1/Scale
MaxCoord == 4
Scale == 4

\* ------------------------------------------------------- python primitives
\* Python None passed as an (optional) str argument or returned by os.getenv
PyNone == "<None>"

\* truthiness of an Optional[str]: `if not x` is taken for None and for ""
Truthy(x) == x \notin {PyNone, ""}

Dict(r) == [py |-> "dict", items |-> r]
List(s) == [py |-> "list", elems |-> s]
JsonNull == [py |-> "NoneType"]
JsonStr == [py |-> "str"]
ExceptionValue == [py |-> "Exception"]
EmptyDict == Dict(<<>>)

\* isinstance(x, dict) / isinstance(x, Exception)
IsDict(x) == x.py = "dict"
IsException(x) == x.py = "Exception"
\* `k in d` for a dict d
Has(d, k) == k \in DOMAIN d.items
\* d.get(k, default)
Get(d, k, default) == IF Has(d, k) THEN d.items[k] ELSE default
\* `del d[k]` applied to a copy of d
Del(d, k) == Dict([x \in (DOMAIN d.items) \ {k} |-> d.items[x]])

\* a > b for two Python str values (sequences of character codes)
RECURSIVE StrGreater(_, _)
StrGreater(a, b) ==
    IF a = <<>> THEN FALSE
    ELSE IF b = <<>> THEN TRUE
    ELSE IF Head(a) # Head(b) THEN Head(a) > Head(b)
    ELSE StrGreater(Tail(a), Tail(b))

\* ------------------------------------------------------------ route types
\* RouteType enum: backend/api has two members, backend/robyn_lib three
RouteTypeValues(v) ==
    IF v = "api" THEN {"street-info", "land-use"}
    ELSE {"street-info", "land-use", "collaborative-street-works"}

\* a lookup that falls back to STREET_INFO for a value of no member
RouteTypeBug(v, p) == IF p \in RouteTypeValues(v) THEN p ELSE "street-info"

\* RouteType(path_type): the member, or ValueError for a value of no member
RouteType(v, p) == IF p \in RouteTypeValues(v) THEN p ELSE "ValueError"

STREET_INFO == "street-info"
LAND_USE == "land-use"

StreetCollection == "trn-ntwk-street-1"
RoadlinkCollection == "trn-ntwk-roadlink-5"
DefaultCrs == "http://www.opengis.net/def/crs/EPSG/0/27700"

\* collection_ids of the matched case (<<>> for a member with no case)
CollectionIds(rt) ==
    IF rt = STREET_INFO THEN
        << "trn-ntwk-street-1",
           "trn-rami-specialdesignationarea-1",
           "trn-rami-specialdesignationline-1",
           "trn-rami-specialdesignationpoint-1" >>
    ELSE IF rt = LAND_USE THEN << "lus-fts-site-1" >>
    ELSE << >>

\* ------------------------------------------------ upstream response bodies
\* timeStamp strings; they differ in the month field of a fixed-width
\* ISO-8601 stamp, of which the characters are kept: "01", "06", "07", "09"
NoStamp == << >>
TS01 == << 0, 1 >>
TS06 == << 0, 6 >>
TS07 == << 0, 7 >>
TS09 == << 0, 9 >>

RoadlinkIds == 1 .. MaxRoadlinks

RefOf(r) == Dict([roadlinkid |-> r])

\* a street feature with a geometry that references every roadlink id
FeatureA ==
    Dict([id |-> 101, geometry |-> "LineString",
          properties |-> Dict([roadlinkreference |->
              List([i \in RoadlinkIds |-> RefOf(i)])])])
\* a feature without geometry and without references
FeatureB == Dict([id |-> 102, properties |-> EmptyDict])
\* a feature without geometry whose reference list repeats an id and holds
\* two entries that are not usable references (a string, a mapping without
\* roadlinkid)
FeatureC ==
    Dict([id |-> 103,
          properties |-> Dict([roadlinkreference |->
              List(<< RefOf(1), JsonStr, Dict([role |-> 0]), RefOf(1) >>)])])

\* a street feature one of whose references carries a falsy roadlinkid
\* (JSON null, "" or 0: the id that `if feature_id:` takes for none)
FeatureD ==
    Dict([id |-> 104,
          properties |-> Dict([roadlinkreference |->
              List(<< RefOf(1), RefOf(0) >>)])])

\* what one primary fetch can yield: an exception, or a decoded JSON body
Bodies ==
    { ExceptionValue,
      List(<< >>),
      Dict([timeStamp |-> TS09]),
      Dict([features |-> List(<< FeatureA, FeatureB >>), timeStamp |-> TS01]),
      Dict([features |-> List(<< >>), timeStamp |-> TS06]),
      Dict([features |-> List(<< FeatureB, FeatureC >>), timeStamp |-> NoStamp]),
      Dict([features |-> JsonNull, timeStamp |-> TS01]) }

\* the outcome of a fetch whose request is never answered
Hung == [py |-> "hung"]

\* outcomes of a collection one of whose fetches may never be answered
HangBodies ==
    { Hung,
      ExceptionValue,
      Dict([features |-> List(<< >>), timeStamp |-> TS06]) }

\* bodies of a street collection that holds FeatureD
EdgeBodies ==
    { ExceptionValue,
      Dict([features |-> List(<< FeatureD >>), timeStamp |-> TS01]) }

\* what a request to the item listing of the roadlink collection can
\* yield: an exception or a FeatureCollection (which has no `properties`)
ListingBodies ==
    { ExceptionValue,
      Dict([type |-> "FeatureCollection", features |-> List(<< >>),
            timeStamp |-> TS09]) }

\* what the fetch of roadlink r by id can yield
RoadlinkBodies(r) ==
    { ExceptionValue,
      List(<< >>),
      Dict([id |-> r, timeStamp |-> TS09]),
      Dict([id |-> r, geometry |-> "LineString", properties |-> EmptyDict]),
      Dict([id |-> r, properties |-> EmptyDict, timeStamp |-> TS07]) }

\* --------------------------------------------------------- CollectionFetcher
\* feature_id of a call that passes none (Python None; roadlink ids are >= 1)
NoFeatureId == 0

\* OSDataObject.get_single_collection_feature: the endpoint the one request
\* of a call goes to: by id when a feature_id is given, the collection's
\* item listing otherwise; query parameters only for truthy arguments
Endpoint(collection_id, feature_id, query_attr, query_attr_value, bb, bb_crs, c) ==
    LET keys == (IF Truthy(query_attr) /\ Truthy(query_attr_value) THEN {"filter"} ELSE {})
                \cup (IF Truthy(bb) THEN {"bbox"} ELSE {})
                \cup (IF Truthy(bb_crs) THEN {"bbox-crs"} ELSE {})
                \cup (IF Truthy(c) THEN {"crs"} ELSE {})
    IN  [ path |-> IF feature_id # NoFeatureId THEN "items/{id}" ELSE "items",
          collection |-> collection_id,
          feature_id |-> feature_id,
          params |-> [x \in keys |->
                        IF x = "filter" THEN << query_attr, query_attr_value >>
                        ELSE IF x = "bbox" THEN << bb >>
                        ELSE IF x = "bbox-crs" THEN << bb_crs >>
                        ELSE << c >>] ]

\* the argument passed on as it came
OrDefaultBug(x, default) == x

\* `x or default` for an Optional[str]
OrDefault(x, default) == IF Truthy(x) THEN x ELSE default

\* the coroutine built for one primary collection of the matched route type
PrimaryCall(rt, collection_id, u, bb, bb_crs, c) ==
    IF rt = STREET_INFO
    THEN Endpoint(collection_id, NoFeatureId, "usrn", u, PyNone, PyNone, PyNone)
    ELSE Endpoint(collection_id, NoFeatureId, PyNone, PyNone, bb,
                  OrDefault(bb_crs, DefaultCrs), OrDefault(c, DefaultCrs))

\* the coroutine built for one entry of roadlink_ids
RoadlinkCall(roadlink_id) ==
    Endpoint(RoadlinkCollection, roadlink_id, PyNone, PyNone, PyNone, PyNone, PyNone)

\* ---------------------------------------------------------------- validation
\* `if usrn is None`: the empty string passes
UsrnInvalidBug(u) == u = PyNone

\* `if not usrn`
UsrnInvalid(u) == ~Truthy(u)
\* `if bbox is None`: the empty string passes
BboxInvalidBug(bb) == bb = PyNone

\* `if not bbox` of the LAND_USE case
BboxInvalid(bb) == ~Truthy(bb)
\* OSDataObject.__init__: `if not self.api_key`
ApiKeyMissing(key) == ~Truthy(key)

\* an exception: its class, the fixed text of its message and the value the
\* message is formatted with (PyNone when it names none)
NoException == [type |-> "None", msg |-> "None", arg |-> PyNone]
ValueErrorOf(m, a) == [type |-> "ValueError", msg |-> m, arg |-> a]
ValueError(m) == ValueErrorOf(m, PyNone)
\* an exception of class t raised without a message of interest
Raise(t) == [type |-> t, msg |-> "None", arg |-> PyNone]

\* the prologue of process_single_collection up to the creation of the
\* coroutines: the exception it raises (or none), and the locals bound by then
Prologue(v, p, u, bb, key) ==
    IF UsrnInvalid(u)
    THEN [exc |-> ValueError("A valid usrn is required"),
          route_type |-> PyNone, os_data |-> FALSE, collection_ids |-> << >>]
    ELSE IF RouteType(v, p) = "ValueError"
    THEN [exc |-> ValueErrorOf("is not a valid RouteType", p),
          route_type |-> PyNone, os_data |-> FALSE, collection_ids |-> << >>]
    ELSE IF ApiKeyMissing(key)
    THEN [exc |-> ValueError("An API key must be provided"),
          route_type |-> RouteType(v, p), os_data |-> FALSE, collection_ids |-> << >>]
    ELSE IF RouteType(v, p) = STREET_INFO
    THEN [exc |-> NoException,
          route_type |-> STREET_INFO, os_data |-> TRUE,
          collection_ids |-> CollectionIds(STREET_INFO)]
    ELSE IF RouteType(v, p) = LAND_USE
    THEN [exc |-> IF BboxInvalid(bb)
                  THEN ValueError("A valid bbox is required for land use queries")
                  ELSE NoException,
          route_type |-> LAND_USE, os_data |-> TRUE,
          collection_ids |-> CollectionIds(LAND_USE)]
    ELSE [exc |-> ValueErrorOf("Unsupported path type: ", p),
          route_type |-> RouteType(v, p), os_data |-> TRUE, collection_ids |-> << >>]

\* ------------------------------------------------------------------ gather
\* a fetch that is tried once more after it failed
RequestsOfBug(call, outcome) ==
    IF IsException(outcome) THEN << call, call >> ELSE << call >>

\* fetch_data_auth: the network requests one call issues, whatever its
\* outcome: one session.get, no retry
RequestsOf(call, outcome) == << call >>

\* the requests of the coroutines of one gather, in creation order
RECURSIVE Issued(_, _)
Issued(calls, outcomes) ==
    IF calls = << >> THEN << >>
    ELSE RequestsOf(Head(calls), Head(outcomes))
         \o Issued(Tail(calls), Tail(outcomes))

\* a slot of a result list that its fetch has not filled yet
NotDone == [py |-> "pending"]

\* gather that stores outcomes in completion order (as_completed)
GatherSlotBug(i, done) == done + 1

\* asyncio.gather(*coros, return_exceptions=True): the index of the result
\* list that receives the outcome of the i-th coroutine when it is the
\* (done + 1)-th to complete; an exception is stored like a result
GatherSlot(i, done) == i

\* a fetch under a timeout: it completes, as skipped, when not answered
CompletesBug(outcome) == TRUE

\* fetch_data_auth awaits session.get and response.json() with no timeout
\* of its own and nothing cancels it: the coroutine completes when, and
\* only when, the request is answered or fails
Completes(outcome) == outcome # Hung

\* a wait that returns at the first completion (FIRST_COMPLETED)
GatherDoneBug(pending) == TRUE

\* `await asyncio.gather(...)` returns when no coroutine is pending
GatherDone(pending) == pending = {}

\* gather without return_exceptions: the first exception is raised
GatherRaisesBug(outcome) == IsException(outcome)

\* return_exceptions=True: an exception of a coroutine is never raised by
\* the `await asyncio.gather(...)`, whatever the coroutine yields
GatherRaises(outcome) == FALSE

\* ------------------------------------------------------- primary reduction
\* latest_timestamp = None (no character has code -1)
NoneStamp == << -1 >>

\* `if result.get("timeStamp")`
HasStamp(result) == Get(result, "timeStamp", NoneStamp) \notin {NoneStamp, NoStamp}

\* running timestamp without the comparison: the last stamp wins
UpdateTimestampBug(latest, result) ==
    IF HasStamp(result) THEN result.items["timeStamp"] ELSE latest

\* the running timestamp after a non-skipped result
UpdateTimestamp(latest, result) ==
    IF HasStamp(result)
       /\ (latest = NoneStamp \/ StrGreater(result.items["timeStamp"], latest))
    THEN result.items["timeStamp"]
    ELSE latest

\* a primary loop without the `"features" not in result` test
SkipPrimaryBug(result) == IsException(result) \/ ~IsDict(result)

\* the two `continue` branches of the primary loop
SkipPrimary(result) ==
    IsException(result) \/ ~IsDict(result) \/ ~Has(result, "features")

\* a copy that keeps the geometry
StripGeometryBug(feature) == feature

\* feature.copy() followed by `del feature_copy["geometry"]` when present
StripGeometry(feature) ==
    IF Has(feature, "geometry") THEN Del(feature, "geometry") ELSE feature

\* the geometry deleted from the upstream feature itself
SourceAfterStripBug(feature) ==
    IF Has(feature, "geometry") THEN Del(feature, "geometry") ELSE feature

\* what an iteration leaves of the dict it was handed: feature.copy() (and
\* roadlink_result.copy()) is a new dict, and the `del` acts on the copy
SourceAfterStrip(feature) == feature

\* a primary result after the loop over its features
SourcesAfterStrip(result) ==
    [result EXCEPT !.items["features"].elems =
        [n \in DOMAIN @ |-> SourceAfterStrip(@[n])]]

\* every collection of the STREET_INFO route is scanned
ScansRoadlinksBug(v, rt, collection_id) == v = "api" /\ rt = STREET_INFO

\* the street collection of the STREET_INFO route is scanned for roadlink
\* references; the robyn_lib variant has no such scan
ScansRoadlinks(v, rt, collection_id) ==
    v = "api" /\ rt = STREET_INFO /\ collection_id = StreetCollection

\* ref["roadlinkid"] of every entry that is a dict holding that key
RECURSIVE RefIds(_)
RefIds(refs) ==
    IF refs = << >> THEN << >>
    ELSE (IF IsDict(Head(refs)) /\ Has(Head(refs), "roadlinkid")
          THEN << Head(refs).items["roadlinkid"] >> ELSE << >>)
         \o RefIds(Tail(refs))

\* one iteration of `for feature in result["features"]`: the exception it
\* raises (or "None"), the stripped copy and the roadlink ids it collects
ProcessFeature(feature, scan, collection_id) ==
    IF ~IsDict(feature)
    THEN [exc |-> "AttributeError", copy |-> << >>, ids |-> << >>]
    ELSE IF Has(StripGeometry(feature), "geometry")
    THEN [exc |-> "ValueError", copy |-> << >>, ids |-> << >>]
    ELSE IF ~scan
    THEN [exc |-> "None", copy |-> << StripGeometry(feature) >>, ids |-> << >>]
    ELSE LET properties == Get(feature, "properties", EmptyDict)
             roadlinkreference ==
                IF IsDict(properties)
                THEN Get(properties, "roadlinkreference", List(<< >>))
                ELSE JsonNull
         IN  IF ~IsDict(properties)
             THEN [exc |-> "AttributeError", copy |-> << >>, ids |-> << >>]
             ELSE IF roadlinkreference.py # "list"
             THEN [exc |-> "TypeError", copy |-> << >>, ids |-> << >>]
             ELSE [exc |-> "None", copy |-> << StripGeometry(feature) >>,
                   ids |-> RefIds(roadlinkreference.elems)]

\* the whole inner loop over a list of features, first exception wins
RECURSIVE ProcessFeatures(_, _, _)
ProcessFeatures(feats, scan, collection_id) ==
    IF feats = << >> THEN [exc |-> "None", copy |-> << >>, ids |-> << >>]
    ELSE LET h == ProcessFeature(Head(feats), scan, collection_id)
             t == ProcessFeatures(Tail(feats), scan, collection_id)
         IN  IF h.exc # "None" THEN h
             ELSE IF t.exc # "None" THEN t
             ELSE [exc |-> "None", copy |-> h.copy \o t.copy, ids |-> h.ids \o t.ids]

\* the body of the primary loop for a result that is not skipped
ProcessCollection(result, scan, collection_id) ==
    IF ~Has(result, "features")
    THEN [exc |-> "KeyError", copy |-> << >>, ids |-> << >>]
    ELSE IF result.items["features"].py # "list"
    THEN [exc |-> "TypeError", copy |-> << >>, ids |-> << >>]
    ELSE ProcessFeatures(result.items["features"].elems, scan, collection_id)

\* filtered features put in front of the accumulated ones
ExtendBug(all, filtered) == filtered \o all

\* all_features.extend(filtered_features)
Extend(all, filtered) == all \o filtered

\* ------------------------------------------------------ roadlink reduction
\* a roadlink loop without the `properties` test
SkipRoadlinkBug(result) == IsException(result) \/ ~IsDict(result)

\* the three `continue` branches of the roadlink loop
SkipRoadlink(result) ==
    IsException(result) \/ ~IsDict(result) \/ ~Has(result, "properties")

\* a roadlink feature already present is not appended again
AppendRoadlinkBug(all, result) ==
    IF \E n \in DOMAIN all : all[n] = Del(result, "geometry")
    THEN all
    ELSE Append(all, Del(result, "geometry"))

\* all_features after one roadlink result that is not skipped
AppendRoadlink(all, result) ==
    IF Has(StripGeometry(result), "properties")
    THEN Append(all, StripGeometry(result))
    ELSE all

\* ---------------------------------------------------------------- assemble
\* numberReturned counting distinct features
AssembleBug(all, latest) ==
    [ type |-> "FeatureCollection",
      numberReturned |-> Cardinality({all[n] : n \in DOMAIN all}),
      timeStamp |-> IF latest \in {NoneStamp, NoStamp} THEN NoStamp ELSE latest,
      features |-> all ]

\* the dict returned by process_single_collection
Assemble(all, latest) ==
    [ type |-> "FeatureCollection",
      numberReturned |-> Len(all),
      timeStamp |-> IF latest \in {NoneStamp, NoStamp} THEN NoStamp ELSE latest,
      features |-> all ]

\* an empty result treated as an error
EmptyResultRaisesBug(all) == all = << >>

\* `if not all_features`: a warning is logged, nothing is raised
EmptyResultRaises(all) == FALSE

\* the roadlink join runs for STREET_INFO with a non-empty roadlink_ids
JoinPhase(v, rt, ids) == v = "api" /\ rt = STREET_INFO /\ ids # << >>

\* ============================================================ state machine
\* -------------------------------------------------------------- BBoxResolver
\* get_bbox_from_usrn(usrn, buffer_distance=50).  Coordinates are fixed
\* point numbers: the integer n stands for n / Scale.  A stored geometry is
\* what shapely.wkt.loads returns: a Point or a two-point LineString
DefaultBufferDistance == 50
BufferDistances == {5, DefaultBufferDistance}

Abs(n) == IF n < 0 THEN -n ELSE n
Min(S) == CHOOSE n \in S : \A m \in S : n <= m
Max(S) == CHOOSE n \in S : \A m \in S : n >= m

Point(p) == [kind |-> "Point", coords |-> << p >>]
LineString(p, q) == [kind |-> "LineString", coords |-> << p, q >>]

\* whole square numbers only: the length of a stored LineString is rational
IsSquare(n) == \E r \in 0 .. n : r * r = n
ISqrt(n) == CHOOSE r \in 0 .. n : r * r = n

Positions == (0 .. MaxCoord) \X (0 .. MaxCoord)
Geometries ==
    {Point(p) : p \in Positions}
    \cup {LineString(pq[1], pq[2]) : pq \in
            {x \in Positions \X Positions :
                /\ x[1] # x[2]
                /\ IsSquare((x[2][1] - x[1][1]) * (x[2][1] - x[1][1])
                            + (x[2][2] - x[1][2]) * (x[2][2] - x[1][2]))}}

\* geom.bounds
Bounds(g) ==
    LET xs == {g.coords[i][1] : i \in DOMAIN g.coords}
        ys == {g.coords[i][2] : i \in DOMAIN g.coords}
    IN  << Min(xs), Min(ys), Max(xs), Max(ys) >>

\* how far, along each axis, the bounds of geom.buffer(d, cap_style="square",
\* single_sided=False) lie beyond the bounds of geom: d for a Point (a
\* square of side 2d); for a segment of direction u the square cap reaches
\* d beyond the end point along u and d to either side of it, that is
\* d * (|ux| + |uy|) along each axis
CapReach(g, d) ==
    IF g.kind = "Point" THEN d * Scale
    ELSE LET dx == Abs(g.coords[2][1] - g.coords[1][1])
             dy == Abs(g.coords[2][2] - g.coords[1][2])
         IN  (d * Scale * (dx + dy)) \div ISqrt(dx * dx + dy * dy)

\* buffered.bounds
BufferedBounds(g, d) ==
    LET b == Bounds(g)
        r == CapReach(g, d)
    IN  << b[1] - r, b[2] - r, b[3] + r, b[4] + r >>

\* int(coord): truncation toward zero
PyRoundBug(v) == IF v >= 0 THEN v \div Scale ELSE -((-v) \div Scale)

\* round(coord) of Python 3: the nearest integer, a tie goes to the even one
PyRound(v) ==
    LET q == v \div Scale
        r == v % Scale
    IN  IF 2 * r < Scale THEN q
        ELSE IF 2 * r > Scale THEN q + 1
        ELSE IF q % 2 = 0 THEN q ELSE q + 1

\* tuple(round(coord) for coord in buffered.bounds)
RoundedBounds(g, d) == [i \in 1 .. 4 |-> PyRound(BufferedBounds(g, d)[i])]

\* f"{minx},{miny},{maxx},{maxy}" of the route handlers
FormatBBox(t) ==
    ToString(t[1]) \o "," \o ToString(t[2]) \o ","
        \o ToString(t[3]) \o "," \o ToString(t[4])

\* the geometry store as one call finds it: no connection is to be had,
\* the query fails, matches no row, or yields the row of the usrn
NoStore == [state |-> "none"]
StoreUnavailable == [state |-> "unavailable"]
StoreError == [state |-> "error"]
StoreEmpty == [state |-> "empty"]
StoreRow(g) == [state |-> "row", geometry |-> g]
Stores == {StoreUnavailable, StoreError, StoreEmpty} \cup {StoreRow(g) : g \in Geometries}

\* `if not all([schema, table_name])`
ConfigMissing(schema, table_name) == ~(Truthy(schema) /\ Truthy(table_name))

\* an except clause that wraps what it caught
ReraiseBug(e) == [type |-> "RuntimeError", msg |-> e.msg, arg |-> e.arg]

\* `except Exception as e: logger.error(...); raise`
Reraise(e) == e

\* the outcome of one call: the exception raised (or none), the tuple
\* returned (or none) and the number of store queries executed
BBoxFromUsrn(u, d, schema, table_name, st) ==
    IF st.state = "unavailable"
    THEN [exc |-> Raise("ConnectionError"), ret |-> << >>, queries |-> 0]
    ELSE IF ConfigMissing(schema, table_name)
    THEN [exc |-> Reraise(ValueError("Missing schema or table name environment variables")),
          ret |-> << >>, queries |-> 0]
    ELSE IF st.state = "error"
    THEN [exc |-> Reraise(Raise("Exception")), ret |-> << >>, queries |-> 1]
    ELSE IF st.state = "empty"
    THEN [exc |-> Reraise(ValueErrorOf("No geometry found for USRN: ", u)),
          ret |-> << >>, queries |-> 1]
    ELSE [exc |-> NoException, ret |-> RoundedBounds(st.geometry, d),
          queries |-> 1]

VARIABLES
    variant,           \* "api" (backend/api) or "robyn" (backend/robyn_lib)
    path_type, usrn, bbox, os_key,   \* arguments and the OS_KEY environment
    bbox_crs, crs,     \* the two optional CRS arguments
    pc,                \* position of the call
    route_type, os_data, collection_ids,
    upstream,          \* what the fetch of each primary collection yields
    rl_upstream,       \* what the fetch of each roadlink id yields
    pending,           \* coroutines of the current gather not yet complete
    done,              \* number of coroutines of the current gather complete
    feature_results, roadlink_results,
    all_features, latest_timestamp, roadlink_ids,
    k,                 \* index of the loop iteration to run next
    requests,          \* the network requests issued so far, in issue order
    out_of_order,      \* some fetch completed before one created earlier
    ret, exc,          \* the returned dict / the raised exception
    \* one call of get_bbox_from_usrn
    bpc,               \* "idle", "call", "returned" or "raised"
    buffer_distance, usrn_schema, usrn_table, store,
    store_queries,     \* store queries executed so far
    bbox_tuple, bexc,  \* the returned tuple / the raised exception
    \* one request to a route handler
    route,             \* "street-info-llm" or "land-use-llm"
    hpc,               \* position of the handler ("idle": no handler runs)
    stages,            \* the collaborators invoked so far, in call order
    hexc,              \* the exception the handler's try block raised
    status             \* status code of the response

VARIABLES
    mreq,              \* the requests PrometheusMiddleware.dispatch has seen
    in_progress,       \* http_requests_in_progress, by endpoint
    requests_total,    \* http_requests_total, by endpoint and status group
    duration_count,    \* observations of http_request_duration_seconds
    errors_total,      \* http_errors_total
    exceptions_total,  \* http_exceptions_total
    world,             \* what the upstream answers, by collection and id
    calls,             \* concurrent calls of process_single_collection
    cells              \* the accumulators the calls hold

\* the metrics and the requests that move them
mvars == << mreq, in_progress, requests_total, duration_count, errors_total,
            exceptions_total >>

\* the calls that run side by side
cvars == << world, calls, cells >>

xvars == << mvars, cvars >>

vars == << mvars, cvars,
           variant, path_type, usrn, bbox, bbox_crs, crs, os_key, pc, route_type, os_data,
           collection_ids, upstream, rl_upstream, pending, done,
           feature_results, roadlink_results, all_features, latest_timestamp,
           roadlink_ids, k, requests, out_of_order, ret, exc,
           bpc, buffer_distance, usrn_schema, usrn_table, store,
           store_queries, bbox_tuple, bexc,
           route, hpc, stages, hexc, status >>

\* the state of process_single_collection
avars == << pc, route_type, os_data, collection_ids, upstream, rl_upstream,
            pending, done, feature_results, roadlink_results, all_features,
            latest_timestamp, roadlink_ids, k, requests, out_of_order,
            ret, exc >>
\* the state of get_bbox_from_usrn
bvars == << bpc, buffer_distance, usrn_schema, usrn_table, store,
            store_queries, bbox_tuple, bexc >>
\* the state of the route handler
hvars == << route, hpc, stages, hexc, status >>

inputs == << variant, path_type, usrn, bbox, bbox_crs, crs, os_key >>

PathTypes == {"street-info", "land-use", "collaborative-street-works", "bogus"}
Usrns == {PyNone, "", "11720125"}
Bboxes == {PyNone, "", "1,2,3,4"}
OsKeys == {PyNone, "key"}
\* (bbox, bbox_crs, crs) of a call: the CRS arguments absent, or supplied
\* as a URI or as the empty string
CallArgs ==
    {<< bb, PyNone, PyNone >> : bb \in Bboxes}
    \cup { << "1,2,3,4", "http://www.opengis.net/def/crs/EPSG/0/4326", "" >>,
           << "1,2,3,4", "", "http://www.opengis.net/def/crs/EPSG/0/3857" >> }

NoReturn == [type |-> "None"]
\* no response sent yet
NoStatus == 0

\* the aggregator before a call
AggregatorIdle ==
    /\ route_type = PyNone
    /\ os_data = FALSE
    /\ collection_ids = << >>
    /\ upstream = << >>
    /\ rl_upstream = << >>
    /\ pending = {}
    /\ done = 0
    /\ feature_results = << >>
    /\ roadlink_results = << >>
    /\ all_features = << >>
    /\ latest_timestamp = NoneStamp
    /\ roadlink_ids = << >>
    /\ k = 0
    /\ requests = << >>
    /\ out_of_order = FALSE
    /\ ret = NoReturn
    /\ exc = NoException

\* the resolver before a call
ResolverIdle ==
    /\ store_queries = 0
    /\ bbox_tuple = << >>
    /\ bexc = NoException

\* no request passes the middleware
NoMetrics ==
    /\ mreq = << >>
    /\ in_progress = << >>
    /\ requests_total = << >>
    /\ duration_count = << >>
    /\ errors_total = << >>
    /\ exceptions_total = << >>

\* no calls run side by side
NoPair ==
    /\ world = << >>
    /\ calls = << >>
    /\ cells = << >>

\* no resolver call is made
NoResolver ==
    /\ bpc = "idle"
    /\ buffer_distance = DefaultBufferDistance
    /\ usrn_schema = PyNone
    /\ usrn_table = PyNone
    /\ store = NoStore
    /\ ResolverIdle

\* no route handler runs
NoHandler ==
    /\ route = PyNone
    /\ hpc = "idle"
    /\ stages = << >>
    /\ hexc = NoException
    /\ status = NoStatus

\* a direct call of process_single_collection
Init ==
    /\ variant \in {"api", "robyn"}
    /\ path_type \in PathTypes
    /\ usrn \in Usrns
    /\ \E a \in CallArgs : bbox = a[1] /\ bbox_crs = a[2] /\ crs = a[3]
    /\ os_key \in OsKeys
    /\ pc = "call"
    /\ AggregatorIdle
    /\ NoResolver
    /\ NoHandler
    /\ NoMetrics
    /\ NoPair

\* lines 32-86: validation, RouteType(path_type), OSDataObject(), match
Validate ==
    /\ UNCHANGED << bvars, hvars, xvars >>
    /\ pc = "call"
    /\ LET r == Prologue(variant, path_type, usrn, bbox, os_key)
       IN  /\ route_type' = r.route_type
           /\ os_data' = r.os_data
           /\ collection_ids' = r.collection_ids
           /\ exc' = r.exc
           /\ pc' = IF r.exc = NoException THEN "fan_out" ELSE "raised"
    /\ UNCHANGED << inputs, upstream, rl_upstream, pending, done,
                    feature_results, roadlink_results, all_features,
                    latest_timestamp, roadlink_ids, k, requests,
                    out_of_order, ret >>

\* lines 89-91: gather starts every primary coroutine; each issues its request
GatherPrimary ==
    /\ UNCHANGED << bvars, hvars, xvars >>
    /\ pc = "fan_out"
    /\ upstream' \in [1 .. Len(collection_ids) -> Bodies]
                    \cup [1 .. Len(collection_ids) -> EdgeBodies]
                    \cup [1 .. Len(collection_ids) -> HangBodies]
    /\ requests' = requests \o
          Issued([i \in 1 .. Len(collection_ids) |->
                     PrimaryCall(route_type, collection_ids[i], usrn, bbox,
                                 bbox_crs, crs)],
                 upstream')
    /\ pending' = 1 .. Len(collection_ids)
    /\ done' = 0
    /\ feature_results' = [i \in 1 .. Len(collection_ids) |-> NotDone]
    /\ pc' = "await_primary"
    /\ UNCHANGED << inputs, route_type, os_data, collection_ids, rl_upstream,
                    roadlink_results, all_features, latest_timestamp,
                    roadlink_ids, k, out_of_order, ret, exc >>

\* one primary fetch completes, with a result or an exception; gather
\* returns once none is pending
CompletePrimary(i) ==
    /\ UNCHANGED << bvars, hvars, xvars >>
    /\ pc = "await_primary"
    /\ i \in pending
    /\ Completes(upstream[i])
    /\ feature_results' =
          [feature_results EXCEPT ![GatherSlot(i, done)] = upstream[i]]
    /\ pending' = pending \ {i}
    /\ done' = done + 1
    /\ out_of_order' = (out_of_order \/ \E h \in pending : h < i)
    /\ IF GatherRaises(upstream[i])
       THEN /\ pc' = "raised"
            /\ exc' = Raise("Exception")
            /\ k' = k
       ELSE /\ pc' = IF GatherDone(pending') THEN "reduce_primary" ELSE pc
            /\ k' = IF GatherDone(pending') THEN 1 ELSE k
            /\ exc' = exc
    /\ UNCHANGED << inputs, route_type, os_data, collection_ids, upstream,
                    rl_upstream, roadlink_results, all_features,
                    latest_timestamp, roadlink_ids, requests, ret >>

\* lines 98-136: one iteration of the loop over zip(collection_ids, results)
ReducePrimary ==
    /\ UNCHANGED << bvars, hvars, xvars >>
    /\ pc = "reduce_primary"
    /\ k <= Len(collection_ids)
    /\ LET result == feature_results[k]
           r == ProcessCollection(result,
                    ScansRoadlinks(variant, route_type, collection_ids[k]),
                    collection_ids[k])
       IN  IF SkipPrimary(result)
           THEN /\ k' = k + 1
                /\ UNCHANGED << pc, all_features, latest_timestamp, roadlink_ids,
                                exc, feature_results >>
           ELSE IF r.exc # "None"
           THEN /\ pc' = "raised"
                /\ exc' = Raise(r.exc)
                /\ UNCHANGED << k, all_features, latest_timestamp, roadlink_ids,
                                feature_results >>
           ELSE /\ all_features' = Extend(all_features, r.copy)
                /\ feature_results' =
                      [feature_results EXCEPT ![k] = SourcesAfterStrip(result)]
                /\ roadlink_ids' = roadlink_ids \o r.ids
                /\ latest_timestamp' = UpdateTimestamp(latest_timestamp, result)
                /\ k' = k + 1
                /\ UNCHANGED << pc, exc >>
    /\ UNCHANGED << inputs, route_type, os_data, collection_ids, upstream,
                    rl_upstream, pending, done, roadlink_results, requests,
                    out_of_order, ret >>

\* lines 139-152: one fetch by id per entry of roadlink_ids, gathered
GatherRoadlinks ==
    /\ UNCHANGED << bvars, hvars, xvars >>
    /\ pc = "reduce_primary"
    /\ k > Len(collection_ids)
    /\ JoinPhase(variant, route_type, roadlink_ids)
    /\ LET ids == {roadlink_ids[j] : j \in 1 .. Len(roadlink_ids)}
       IN  /\ rl_upstream' \in [ids -> {Hung} \cup ListingBodies \cup
                                         UNION {RoadlinkBodies(r) : r \in ids}]
           /\ \A r \in ids :
                 rl_upstream'[r] \in {Hung} \cup
                                     IF RoadlinkCall(r).path = "items"
                                     THEN ListingBodies
                                     ELSE RoadlinkBodies(r)
    /\ requests' = requests \o
          Issued([j \in 1 .. Len(roadlink_ids) |-> RoadlinkCall(roadlink_ids[j])],
                 [j \in 1 .. Len(roadlink_ids) |-> rl_upstream'[roadlink_ids[j]]])
    /\ pending' = 1 .. Len(roadlink_ids)
    /\ done' = 0
    /\ roadlink_results' = [j \in 1 .. Len(roadlink_ids) |-> NotDone]
    /\ pc' = "await_roadlinks"
    /\ UNCHANGED << inputs, route_type, os_data, collection_ids, upstream,
                    feature_results, all_features, latest_timestamp,
                    roadlink_ids, k, out_of_order, ret, exc >>

\* one roadlink fetch completes, with a result or an exception
CompleteRoadlink(j) ==
    /\ UNCHANGED << bvars, hvars, xvars >>
    /\ pc = "await_roadlinks"
    /\ j \in pending
    /\ Completes(rl_upstream[roadlink_ids[j]])
    /\ roadlink_results' =
          [roadlink_results EXCEPT ![GatherSlot(j, done)] = rl_upstream[roadlink_ids[j]]]
    /\ pending' = pending \ {j}
    /\ done' = done + 1
    /\ out_of_order' = (out_of_order \/ \E h \in pending : h < j)
    /\ IF GatherRaises(rl_upstream[roadlink_ids[j]])
       THEN /\ pc' = "raised"
            /\ exc' = Raise("Exception")
            /\ k' = k
       ELSE /\ pc' = IF GatherDone(pending') THEN "reduce_roadlinks" ELSE pc
            /\ k' = IF GatherDone(pending') THEN 1 ELSE k
            /\ exc' = exc
    /\ UNCHANGED << inputs, route_type, os_data, collection_ids, upstream,
                    rl_upstream, feature_results, all_features,
                    latest_timestamp, roadlink_ids, requests, ret >>

\* lines 156-182: one iteration of the loop over zip(roadlink_ids, results)
ReduceRoadlink ==
    /\ UNCHANGED << bvars, hvars, xvars >>
    /\ pc = "reduce_roadlinks"
    /\ k <= Len(roadlink_ids)
    /\ LET result == roadlink_results[k]
       IN  IF SkipRoadlink(result)
           THEN UNCHANGED << all_features, latest_timestamp, roadlink_results >>
           ELSE /\ all_features' = AppendRoadlink(all_features, result)
                /\ latest_timestamp' = UpdateTimestamp(latest_timestamp, result)
                /\ roadlink_results' =
                      [roadlink_results EXCEPT ![k] = SourceAfterStrip(result)]
    /\ k' = k + 1
    /\ UNCHANGED << inputs, pc, route_type, os_data, collection_ids, upstream,
                    rl_upstream, pending, done, feature_results,
                    roadlink_ids, requests, out_of_order, ret, exc >>

\* lines 186-194: the FeatureCollection is assembled and returned
Return ==
    /\ UNCHANGED << bvars, hvars, xvars >>
    /\ \/ /\ pc = "reduce_primary"
          /\ k > Len(collection_ids)
          /\ ~JoinPhase(variant, route_type, roadlink_ids)
       \/ /\ pc = "reduce_roadlinks"
          /\ k > Len(roadlink_ids)
    /\ IF EmptyResultRaises(all_features)
       THEN /\ pc' = "raised"
            /\ exc' = ValueError("No features found")
            /\ ret' = ret
       ELSE /\ pc' = "returned"
            /\ ret' = Assemble(all_features, latest_timestamp)
            /\ exc' = exc
    /\ UNCHANGED << inputs, route_type, os_data, collection_ids, upstream,
                    rl_upstream, pending, done, feature_results,
                    roadlink_results, all_features, latest_timestamp,
                    roadlink_ids, k, requests, out_of_order >>

Next ==
    \/ Validate
    \/ GatherPrimary
    \/ \E i \in pending : CompletePrimary(i)
    \/ ReducePrimary
    \/ GatherRoadlinks
    \/ \E j \in pending : CompleteRoadlink(j)
    \/ ReduceRoadlink
    \/ Return

Spec == Init /\ [][Next]_vars

\* the event loop runs a coroutine that is ready: a step that stays
\* possible is taken; a fetch that is never answered offers no step
\* a direct call with well-formed arguments
InitLive ==
    /\ Init
    /\ Truthy(usrn)
    /\ Truthy(os_key)
    /\ Truthy(bbox)
    /\ bbox_crs = PyNone
    /\ crs = PyNone

SpecLive == InitLive /\ [][Next]_vars /\ WF_vars(Next)

TypeOK ==
    /\ pc \in {"idle", "call", "fan_out", "await_primary", "reduce_primary",
               "await_roadlinks", "reduce_roadlinks", "returned", "raised"}
    /\ (pc = "returned") <=> (ret # NoReturn)
    /\ (pc = "raised") <=> (exc # NoException)

\* ------------------------------------------------------ get_bbox_from_usrn
\* lines 8-47, the whole call: configuration check, the one store query,
\* the empty check, buffer and rounding; any exception is re-raised
GetBBoxFromUsrn ==
    /\ bpc = "call"
    /\ LET r == BBoxFromUsrn(usrn, buffer_distance, usrn_schema, usrn_table, store)
       IN  /\ bexc' = r.exc
           /\ bbox_tuple' = r.ret
           /\ store_queries' = store_queries + r.queries
           /\ bpc' = IF r.exc = NoException THEN "returned" ELSE "raised"
    /\ UNCHANGED << xvars, inputs, avars, hvars, buffer_distance, usrn_schema,
                    usrn_table, store >>

EnvValues == {PyNone, "", "set"}

\* a direct call of get_bbox_from_usrn
InitBBox ==
    /\ variant = "api"
    /\ path_type = PyNone
    /\ usrn \in {u \in Usrns : Truthy(u)}
    /\ bbox = PyNone
    /\ bbox_crs = PyNone
    /\ crs = PyNone
    /\ os_key = PyNone
    /\ pc = "idle"
    /\ AggregatorIdle
    /\ bpc = "call"
    /\ buffer_distance \in BufferDistances
    /\ usrn_schema \in EnvValues
    /\ usrn_table \in EnvValues
    /\ store \in Stores
    /\ ResolverIdle
    /\ NoHandler
    /\ NoMetrics
    /\ NoPair

NextBBox == GetBBoxFromUsrn

SpecBBox == InitBBox /\ [][NextBBox]_vars

\* ----------------------------------------------------------- route handlers
\* get_street_info_llm_route / get_land_use_llm_route of backend/api and
\* get_street_info_route_llm / get_land_use_route_llm of backend/robyn_lib
Routes == {"street-info-llm", "land-use-llm"}

\* path_type = RouteType.<member>.value
RoutePathType(r) == IF r = "street-info-llm" THEN "street-info" ELSE "land-use"

\* the usrn values a handler body can see: the api declares the parameter
\* required, numeric and of length >= 1; robyn_lib reads it from the query
HandlerUsrns(v) == IF v = "api" THEN {u \in Usrns : Truthy(u)} ELSE Usrns

\* every handler resolves a bbox
CallsResolverBug(v, r) == TRUE

\* the handlers that await geometry_service.get_bbox_from_usrn(usrn): the
\* land-use handlers, and in robyn_lib the street-info handler as well
CallsResolver(v, r) == v = "robyn" \/ r = "land-use-llm"

\* robyn_lib's street-info handler awaits get_street_manager_stats(usrn)
CallsStreetManager(v, r) == v = "robyn" /\ r = "street-info-llm"

\* OSFeatureService.get_features of robyn_lib: every parameter is required
ServiceRejects(v, u, bb, bb_crs, c) ==
    v = "robyn" /\ (u = PyNone \/ bb = PyNone \/ bb_crs = PyNone \/ c = PyNone)

\* what a collaborator awaited by the handler does: it returns, or raises
\* a ValueError or another exception
StageOutcomes == {"ok", "ValueError", "Exception"}
StageError(stage, o) == [type |-> o, msg |-> stage, arg |-> PyNone]

\* voice parameter of the api handlers
Voices == {PyNone, "alloy"}

\* every exception answered as a server error
StatusForBug(e) == 500

\* `except ValueError` answers 400, `except Exception` answers 500
StatusFor(e) == IF e.type = "ValueError" THEN 400 ELSE 500

\* the stored geometries the requests are served from
RouteStores ==
    { StoreUnavailable, StoreError, StoreEmpty,
      StoreRow(Point(<< 2, 3 >>)),
      StoreRow(LineString(<< 2, 2 >>, << 3, 2 >>)) }

\* the handler is entered: usrn is read and checked, path_type is set
HandlerStart ==
    /\ hpc = "start"
    /\ IF variant = "robyn" /\ ~Truthy(usrn)
       THEN /\ hexc' = ValueError("Missing required parameter: usrn")
            /\ hpc' = "except"
            /\ path_type' = path_type
       ELSE /\ hexc' = hexc
            /\ path_type' = RoutePathType(route)
            /\ hpc' = IF CallsResolver(variant, route) THEN "resolve" ELSE "features"
    /\ UNCHANGED << xvars, variant, usrn, bbox, bbox_crs, crs, os_key, avars, bvars,
                    route, stages, status >>

\* await geometry_service.get_bbox_from_usrn(usrn): the call is made, with
\* the default buffer distance, in the environment of the moment
CallResolver ==
    /\ hpc = "resolve"
    /\ stages' = Append(stages, "resolver")
    /\ bpc' = "call"
    /\ buffer_distance' = DefaultBufferDistance
    /\ usrn_schema' \in EnvValues
    /\ usrn_table' \in EnvValues
    /\ store' \in RouteStores
    /\ hpc' = "resolving"
    /\ UNCHANGED << xvars, inputs, avars, store_queries, bbox_tuple, bexc, route,
                    hexc, status >>

\* the resolver call is over: its exception reaches the handler's except
\* clauses, or the tuple is formatted into bbox
ResolverDone ==
    /\ hpc = "resolving"
    /\ bpc \in {"returned", "raised"}
    /\ IF bpc = "raised"
       THEN /\ hexc' = bexc
            /\ hpc' = "except"
            /\ UNCHANGED << bbox, bbox_crs, crs >>
       ELSE /\ bbox' = FormatBBox(bbox_tuple)
            /\ crs' = DefaultCrs
            /\ bbox_crs' = DefaultCrs
            /\ hexc' = hexc
            /\ hpc' = IF CallsStreetManager(variant, route) THEN "stats" ELSE "features"
    /\ UNCHANGED << xvars, variant, path_type, usrn, os_key, avars, bvars, route,
                    stages, status >>

\* await street_manager_service.get_street_manager_stats(usrn)
StreetManagerStats ==
    /\ hpc = "stats"
    /\ stages' = Append(stages, "street_manager")
    /\ \E o \in StageOutcomes :
          IF o = "ok"
          THEN hpc' = "features" /\ hexc' = hexc
          ELSE hpc' = "except" /\ hexc' = StageError("street_manager", o)
    /\ UNCHANGED << xvars, inputs, avars, bvars, route, status >>

\* await feature_service.get_features(...): process_single_collection is
\* called
CallFeatures ==
    /\ hpc = "features"
    /\ stages' = Append(stages, "aggregator")
    /\ IF ServiceRejects(variant, usrn, bbox, bbox_crs, crs)
       THEN /\ hexc' = ValueError("All parameters must be provided")
            /\ hpc' = "except"
            /\ pc' = pc
       ELSE /\ pc' = "call"
            /\ hpc' = "aggregating"
            /\ hexc' = hexc
    /\ UNCHANGED << inputs, route_type, os_data, collection_ids, upstream,
                    rl_upstream, pending, done, feature_results,
                    roadlink_results, all_features, latest_timestamp,
                    roadlink_ids, k, requests, out_of_order, ret, exc,
                    bvars, route, status, xvars >>

\* process_single_collection is over
FeaturesDone ==
    /\ hpc = "aggregating"
    /\ pc \in {"returned", "raised"}
    /\ IF pc = "raised"
       THEN hexc' = exc /\ hpc' = "except"
       ELSE hexc' = hexc /\ hpc' = "preprocess"
    /\ UNCHANGED << xvars, inputs, avars, bvars, route, stages, status >>

\* await llm_summary_service.pre_process_street_info / _land_use_info
PreProcess ==
    /\ hpc = "preprocess"
    /\ stages' = Append(stages, "pre_process")
    /\ \E o \in StageOutcomes :
          IF o = "ok"
          THEN hpc' = "summarise" /\ hexc' = hexc
          ELSE hpc' = "except" /\ hexc' = StageError("pre_process", o)
    /\ UNCHANGED << xvars, inputs, avars, bvars, route, status >>

\* await llm_summary_service.summarise_results(simplified_features, path_type)
Summarise ==
    /\ hpc = "summarise"
    /\ stages' = Append(stages, "summarizer")
    /\ \E o \in StageOutcomes :
          IF o = "ok"
          THEN hpc' = "respond" /\ hexc' = hexc
          ELSE hpc' = "except" /\ hexc' = StageError("summarizer", o)
    /\ UNCHANGED << xvars, inputs, avars, bvars, route, status >>

\* the summary is returned, for the api as audio when a voice is given
Respond ==
    /\ hpc = "respond"
    /\ \E voice \in Voices, o \in StageOutcomes :
          IF variant = "api" /\ Truthy(voice)
          THEN /\ stages' = Append(stages, "tts")
               /\ IF o = "ok"
                  THEN hpc' = "responded" /\ status' = 200 /\ hexc' = hexc
                  ELSE hpc' = "except" /\ status' = status
                       /\ hexc' = StageError("tts", o)
          ELSE /\ stages' = stages
               /\ hpc' = "responded" /\ status' = 200 /\ hexc' = hexc
    /\ UNCHANGED << xvars, inputs, avars, bvars, route >>

\* the except clauses of the handler
Except ==
    /\ hpc = "except"
    /\ status' = StatusFor(hexc)
    /\ hpc' = "responded"
    /\ UNCHANGED << xvars, inputs, avars, bvars, route, stages, hexc >>

\* one request to one of the handlers
InitRoute ==
    /\ variant \in {"api", "robyn"}
    /\ route \in Routes
    /\ usrn \in HandlerUsrns(variant)
    /\ os_key \in OsKeys
    /\ path_type = PyNone
    /\ bbox = PyNone
    /\ bbox_crs = PyNone
    /\ crs = PyNone
    /\ pc = "idle"
    /\ AggregatorIdle
    /\ NoResolver
    /\ hpc = "start"
    /\ stages = << >>
    /\ hexc = NoException
    /\ status = NoStatus
    /\ NoMetrics
    /\ NoPair

NextRoute ==
    \/ HandlerStart
    \/ CallResolver
    \/ GetBBoxFromUsrn
    \/ ResolverDone
    \/ StreetManagerStats
    \/ CallFeatures
    \/ Validate
    \/ GatherPrimary
    \/ \E i \in pending : CompletePrimary(i)
    \/ ReducePrimary
    \/ GatherRoadlinks
    \/ \E j \in pending : CompleteRoadlink(j)
    \/ ReduceRoadlink
    \/ Return
    \/ FeaturesDone
    \/ PreProcess
    \/ Summarise
    \/ Respond
    \/ Except

SpecRoute == InitRoute /\ [][NextRoute]_vars

\* ----------------------------------------------------- PrometheusMiddleware
\* the requests that can be in flight at once
MaxRequests == 2
Requests == 1 .. MaxRequests

EXCLUDED_PATHS == {"/metrics", "/health", "/healthz", "/readiness"}
RequestPaths == EXCLUDED_PATHS \cup {"/street-info-llm", "/land-use-info-llm"}

\* `if request.url.path in self.EXCLUDED_PATHS`
Excluded(path) == path \in EXCLUDED_PATHS

\* the status codes a downstream response carries
StatusCodes == {200, 400, 404, 500}

\* normalise_status_code
normalise_status_code(st) ==
    IF st < 200 THEN "1xx"
    ELSE IF st < 300 THEN "2xx"
    ELSE IF st < 400 THEN "3xx"
    ELSE IF st < 500 THEN "4xx"
    ELSE "5xx"

StatusGroups == {"1xx", "2xx", "3xx", "4xx", "5xx"}
ErrorTypes == {"client_error", "server_error"}
UsrnStatuses == {"invalid", "valid", "not_provided"}
ExceptionTypes == {"RuntimeError"}

\* _record_error_metrics: the labels of the http_errors_total sample
ErrorLabels(endpoint, has_usrn, st) ==
    << endpoint,
       IF 400 <= st /\ st < 500 THEN "client_error" ELSE "server_error",
       IF has_usrn THEN (IF st = 400 THEN "invalid" ELSE "valid")
       ELSE "not_provided" >>

\* the bookkeeping done after the try block, so skipped when it raises
RunsOnExitBug(raised) == ~raised

\* the bookkeeping of lines 105-123 is a `finally` clause: it runs when
\* call_next returns and when it raises
RunsOnExit(raised) == TRUE

NoRequest == [at |-> "none", path |-> PyNone, has_usrn |-> FALSE, status |-> NoStatus]

\* the application starts with every metric at zero
InitMetrics ==
    /\ mreq = [r \in Requests |-> NoRequest]
    /\ in_progress = [e \in RequestPaths |-> 0]
    /\ requests_total = [l \in RequestPaths \X StatusGroups |-> 0]
    /\ duration_count = [e \in RequestPaths |-> 0]
    /\ errors_total = [l \in RequestPaths \X ErrorTypes \X UsrnStatuses |-> 0]
    /\ exceptions_total = [l \in RequestPaths \X ExceptionTypes |-> 0]
    /\ variant = "api"
    /\ path_type = PyNone
    /\ usrn = PyNone
    /\ bbox = PyNone
    /\ bbox_crs = PyNone
    /\ crs = PyNone
    /\ os_key = PyNone
    /\ pc = "idle"
    /\ AggregatorIdle
    /\ NoResolver
    /\ NoHandler
    /\ NoPair

\* lines 75-88: dispatch up to `await call_next(request)`
Dispatch(r, path, has_usrn) ==
    /\ mreq[r].at = "none"
    /\ mreq' = [mreq EXCEPT ![r] = [at |-> "downstream", path |-> path,
                                    has_usrn |-> has_usrn, status |-> NoStatus]]
    /\ in_progress' = IF Excluded(path) THEN in_progress
                      ELSE [in_progress EXCEPT ![path] = @ + 1]
    /\ UNCHANGED << requests_total, duration_count, errors_total,
                    exceptions_total >>
    /\ UNCHANGED << inputs, avars, bvars, hvars, cvars >>

\* the finally clause, lines 104-123, for the status code st
OnExit(r, st) ==
    LET endpoint == mreq[r].path
    IN  /\ in_progress' = [in_progress EXCEPT ![endpoint] = @ - 1]
        /\ requests_total' =
              [requests_total EXCEPT ![<< endpoint, normalise_status_code(st) >>] = @ + 1]
        /\ duration_count' = [duration_count EXCEPT ![endpoint] = @ + 1]
        /\ errors_total' =
              IF st >= 400
              THEN [errors_total EXCEPT
                       ![ErrorLabels(endpoint, mreq[r].has_usrn, st)] = @ + 1]
              ELSE errors_total

\* lines 88-90 and the finally clause: call_next returns a response
CallNextReturns(r, st) ==
    /\ mreq[r].at = "downstream"
    /\ mreq' = [mreq EXCEPT ![r].at = "returned", ![r].status = st]
    /\ IF Excluded(mreq[r].path) \/ ~RunsOnExit(FALSE)
       THEN UNCHANGED << in_progress, requests_total, duration_count, errors_total >>
       ELSE OnExit(r, st)
    /\ UNCHANGED exceptions_total
    /\ UNCHANGED << inputs, avars, bvars, hvars, cvars >>

\* lines 92-102 and the finally clause: call_next raises, status_code = 500
CallNextRaises(r, e) ==
    /\ mreq[r].at = "downstream"
    /\ mreq' = [mreq EXCEPT ![r].at = "raised"]
    /\ exceptions_total' =
          IF Excluded(mreq[r].path) THEN exceptions_total
          ELSE [exceptions_total EXCEPT ![<< mreq[r].path, e >>] = @ + 1]
    /\ IF Excluded(mreq[r].path) \/ ~RunsOnExit(TRUE)
       THEN UNCHANGED << in_progress, requests_total, duration_count, errors_total >>
       ELSE OnExit(r, 500)
    /\ UNCHANGED << inputs, avars, bvars, hvars, cvars >>

NextMetrics ==
    \/ \E r \in Requests, path \in RequestPaths, has_usrn \in BOOLEAN :
          Dispatch(r, path, has_usrn)
    \/ \E r \in Requests, st \in StatusCodes : CallNextReturns(r, st)
    \/ \E r \in Requests, e \in ExceptionTypes : CallNextRaises(r, e)

SpecMetrics == InitMetrics /\ [][NextMetrics]_vars

\* ------------------------------------------------------- concurrent calls
\* calls of process_single_collection that one event loop runs side by side;
\* a call is suspended only at its two gathers, and the upstream answers a
\* request the same way whichever call sent it
MaxCalls == 2
Calls == 1 .. MaxCalls

PairPathTypes == {STREET_INFO, LAND_USE}
PairCollections ==
    UNION { {CollectionIds(rt)[i] : i \in DOMAIN CollectionIds(rt)} :
            rt \in PairPathTypes }
PairBodies ==
    { ExceptionValue,
      Dict([features |-> List(<< FeatureA, FeatureB >>), timeStamp |-> TS01]) }
PairRoadlinkBodies(r) ==
    { ExceptionValue,
      Dict([id |-> r, geometry |-> "LineString", properties |-> EmptyDict,
            timeStamp |-> TS07]) }
Worlds ==
    { [primary |-> f, roadlink |-> g] :
        f \in [PairCollections -> PairBodies],
        g \in { h \in [RoadlinkIds -> UNION {PairRoadlinkBodies(r) : r \in RoadlinkIds}] :
                  \A r \in RoadlinkIds : h[r] \in PairRoadlinkBodies(r) } }

\* accumulators kept in one place for every call
ScopeBug(c) == 1

\* lines 94-96: all_features, latest_timestamp and roadlink_ids are locals
\* of the call: the cell of call c is c's own
Scope(c) == c

\* lines 94-96
NewAccumulators ==
    [all_features |-> << >>, latest_timestamp |-> NoneStamp,
     roadlink_ids |-> << >>, exc |-> "None"]

\* lines 98-136: the loop over zip(collection_ids, feature_results)
RECURSIVE PrimaryLoop(_, _, _, _, _)
PrimaryLoop(acc, v, rt, cids, results) ==
    IF cids = << >> \/ results = << >> \/ acc.exc # "None" THEN acc
    ELSE LET result == Head(results)
             r == ProcessCollection(result, ScansRoadlinks(v, rt, Head(cids)),
                                    Head(cids))
             next ==
                IF SkipPrimary(result) THEN acc
                ELSE IF r.exc # "None" THEN [acc EXCEPT !.exc = r.exc]
                ELSE [all_features |-> Extend(acc.all_features, r.copy),
                      latest_timestamp |->
                          UpdateTimestamp(acc.latest_timestamp, result),
                      roadlink_ids |-> acc.roadlink_ids \o r.ids,
                      exc |-> "None"]
         IN  PrimaryLoop(next, v, rt, Tail(cids), Tail(results))

\* lines 156-182: the loop over zip(roadlink_ids, roadlink_results)
RECURSIVE RoadlinkLoop(_, _, _)
RoadlinkLoop(acc, ids, results) ==
    IF ids = << >> \/ results = << >> THEN acc
    ELSE LET result == Head(results)
             next ==
                IF SkipRoadlink(result) THEN acc
                ELSE [acc EXCEPT
                        !.all_features = AppendRoadlink(@, result),
                        !.latest_timestamp = UpdateTimestamp(@, result)]
         IN  RoadlinkLoop(next, Tail(ids), Tail(results))

NoCall ==
    [at |-> "idle", path_type |-> PyNone, pending |-> {}, results |-> << >>,
     fetch_ids |-> << >>, rl_results |-> << >>, overlapped |-> FALSE,
     ret |-> NoReturn]

InitPair ==
    /\ world \in Worlds
    /\ calls = [c \in Calls |-> NoCall]
    /\ cells = [c \in Calls |-> NewAccumulators]
    /\ variant = "api"
    /\ path_type = PyNone
    /\ usrn = "11720125"
    /\ bbox = "1,2,3,4"
    /\ bbox_crs = PyNone
    /\ crs = PyNone
    /\ os_key = "key"
    /\ pc = "idle"
    /\ AggregatorIdle
    /\ NoResolver
    /\ NoHandler
    /\ NoMetrics

\* the calls whose accumulators are live across an await, c apart
Suspended(c) == {d \in Calls \ {c} : calls[d].at = "await_roadlinks"}

\* lines 32-91: a call with well-formed arguments reaches its first gather
PairStart(c, p) ==
    /\ calls[c].at = "idle"
    /\ LET cids == CollectionIds(RouteType(variant, p))
       IN  calls' = [calls EXCEPT ![c] =
                [NoCall EXCEPT !.at = "await_primary", !.path_type = p,
                               !.pending = 1 .. Len(cids),
                               !.results = [i \in 1 .. Len(cids) |-> NotDone]]]
    /\ UNCHANGED << world, cells, mvars, inputs, avars, bvars, hvars >>

\* one primary fetch of call c completes
PairCompletePrimary(c, i) ==
    /\ calls[c].at = "await_primary"
    /\ i \in calls[c].pending
    /\ LET cids == CollectionIds(calls[c].path_type)
           completed == Len(cids) - Cardinality(calls[c].pending)
       IN  calls' = [calls EXCEPT
                ![c].results[GatherSlot(i, completed)] = world.primary[cids[i]],
                ![c].pending = @ \ {i}]
    /\ UNCHANGED << world, cells, mvars, inputs, avars, bvars, hvars >>

\* lines 93-152 (or 93-194 without a join): the call resumes after the
\* primary gather and runs, without suspension, to the roadlink gather or
\* to its return
PairResumePrimary(c) ==
    /\ calls[c].at = "await_primary"
    /\ GatherDone(calls[c].pending)
    /\ LET rt == calls[c].path_type
           acc == PrimaryLoop(NewAccumulators, variant, rt, CollectionIds(rt),
                              calls[c].results)
           others == [d \in Calls |->
                         IF d \in Suspended(c)
                         THEN [calls[d] EXCEPT !.overlapped = TRUE]
                         ELSE calls[d]]
       IN  /\ cells' = [cells EXCEPT ![Scope(c)] = acc]
           /\ calls' = [others EXCEPT ![c] =
                 IF acc.exc # "None" THEN [@ EXCEPT !.at = "raised"]
                 ELSE IF JoinPhase(variant, rt, acc.roadlink_ids)
                 THEN [@ EXCEPT !.at = "await_roadlinks",
                                !.fetch_ids = acc.roadlink_ids,
                                !.pending = 1 .. Len(acc.roadlink_ids),
                                !.rl_results =
                                    [j \in 1 .. Len(acc.roadlink_ids) |-> NotDone]]
                 ELSE [@ EXCEPT !.at = "returned",
                                !.ret = Assemble(acc.all_features,
                                                 acc.latest_timestamp)]]
    /\ UNCHANGED << world, mvars, inputs, avars, bvars, hvars >>

\* one roadlink fetch of call c completes
PairCompleteRoadlink(c, j) ==
    /\ calls[c].at = "await_roadlinks"
    /\ j \in calls[c].pending
    /\ LET completed == Len(calls[c].fetch_ids) - Cardinality(calls[c].pending)
       IN  calls' = [calls EXCEPT
                ![c].rl_results[GatherSlot(j, completed)] =
                     world.roadlink[calls[c].fetch_ids[j]],
                ![c].pending = @ \ {j}]
    /\ UNCHANGED << world, cells, mvars, inputs, avars, bvars, hvars >>

\* lines 154-194: the call resumes after the roadlink gather and returns
PairResumeRoadlinks(c) ==
    /\ calls[c].at = "await_roadlinks"
    /\ GatherDone(calls[c].pending)
    /\ LET acc == RoadlinkLoop(cells[Scope(c)], cells[Scope(c)].roadlink_ids,
                               calls[c].rl_results)
           others == [d \in Calls |->
                         IF d \in Suspended(c)
                         THEN [calls[d] EXCEPT !.overlapped = TRUE]
                         ELSE calls[d]]
       IN  /\ cells' = [cells EXCEPT ![Scope(c)] = acc]
           /\ calls' = [others EXCEPT ![c] =
                 [@ EXCEPT !.at = "returned",
                           !.ret = Assemble(acc.all_features, acc.latest_timestamp)]]
    /\ UNCHANGED << world, mvars, inputs, avars, bvars, hvars >>

NextPair ==
    \/ \E c \in Calls, p \in PairPathTypes : PairStart(c, p)
    \/ \E c \in Calls : \E i \in calls[c].pending : PairCompletePrimary(c, i)
    \/ \E c \in Calls : PairResumePrimary(c)
    \/ \E c \in Calls : \E j \in calls[c].pending : PairCompleteRoadlink(c, j)
    \/ \E c \in Calls : PairResumeRoadlinks(c)

SpecPair == InitPair /\ [][NextPair]_vars

\* ================================================================ properties
\* vocabulary of the properties, stated on the upstream responses
Returned == pc = "returned"
Raised == pc = "raised"
PrimaryReduced ==
    \/ pc = "reduce_primary" /\ k > Len(collection_ids)
    \/ pc \in {"await_roadlinks", "reduce_roadlinks", "returned"}

\* a feature as the output is to carry it: every key but geometry
SansGeometry(f) == Dict([x \in (DOMAIN f.items) \ {"geometry"} |-> f.items[x]])

\* a body that is a FeatureCollection of well-formed features
IsFeatureCollection(b) ==
    /\ b.py = "dict"
    /\ "features" \in DOMAIN b.items
    /\ b.items["features"].py = "list"
    /\ \A n \in DOMAIN b.items["features"].elems :
           b.items["features"].elems[n].py = "dict"

\* a primary result the reduction is to skip
SkippedBody(b) == b.py # "dict" \/ "features" \notin DOMAIN b.items

\* what collection i is to contribute to the output
Contribution(i) ==
    IF SkippedBody(upstream[i]) THEN << >>
    ELSE [n \in DOMAIN upstream[i].items["features"].elems |->
              SansGeometry(upstream[i].items["features"].elems[n])]

RECURSIVE PrimaryPart(_)
PrimaryPart(n) == IF n = 0 THEN << >> ELSE PrimaryPart(n - 1) \o Contribution(n)

\* C1: a STREET_INFO aggregation in which some of the four primary fetches
\* fail with an error and the others deliver feature collections does not
\* raise, and the primary part of its features is the concatenation of the
\* features of the collections that succeeded, in collection order.
C1_PartialFailure ==
    ( /\ route_type = STREET_INFO
      /\ upstream # << >>
      /\ \A i \in DOMAIN upstream :
            IsException(upstream[i]) \/ IsFeatureCollection(upstream[i]) )
    => /\ ~Raised
       /\ PrimaryReduced =>
             /\ Len(all_features) >= Len(PrimaryPart(4))
             /\ SubSeq(all_features, 1, Len(PrimaryPart(4))) = PrimaryPart(4)
       /\ Returned =>
             /\ SubSeq(ret.features, 1, Len(PrimaryPart(4))) = PrimaryPart(4)
             /\ Len(ret.features) <= Len(PrimaryPart(4)) + Len(roadlink_ids)

C1_Witness ==
    /\ Returned
    /\ route_type = STREET_INFO
    /\ IsException(upstream[2])
    /\ \A i \in {1, 3, 4} : IsFeatureCollection(upstream[i])
    /\ Len(PrimaryPart(4)) >= 4

\* C2: with a non-empty usrn, a supported route type, a bbox for LAND_USE
\* (and the API key configured) the aggregation never raises, whatever the
\* fetches yield.
C2_NeverRaises ==
    ( /\ Truthy(usrn)
      /\ path_type \in {STREET_INFO, LAND_USE}
      /\ path_type = LAND_USE => Truthy(bbox)
      /\ Truthy(os_key) )
    => ~Raised

\* C3: no feature of a returned FeatureCollection has a geometry key.
C3_NoGeometry ==
    Returned => \A n \in DOMAIN ret.features : ~Has(ret.features[n], "geometry")

C3_Witness ==
    /\ Returned
    /\ \E i \in DOMAIN upstream :
          /\ ~SkippedBody(upstream[i])
          /\ \E n \in DOMAIN upstream[i].items["features"].elems :
                Has(upstream[i].items["features"].elems[n], "geometry")
    /\ \E j \in DOMAIN roadlink_results :
          /\ ~SkipRoadlink(roadlink_results[j])
          /\ Has(roadlink_results[j], "geometry")

\* C4: numberReturned of every returned FeatureCollection is the length of
\* its features, whether fetches failed, were skipped, or the join ran.
C4_NumberReturned ==
    Returned => ret.numberReturned = Len(ret.features)

C4_Witness ==
    /\ Returned
    /\ \E i \in DOMAIN upstream : IsException(upstream[i])
    /\ roadlink_results # << >>
    /\ ret.numberReturned >= 3

\* a roadlink result the join is to accept
AcceptedRoadlink(b) == b.py = "dict" /\ "properties" \in DOMAIN b.items

\* what the j-th entry of the join list is to contribute to the output
RoadlinkContribution(j) ==
    IF AcceptedRoadlink(rl_upstream[roadlink_ids[j]])
    THEN << SansGeometry(rl_upstream[roadlink_ids[j]]) >>
    ELSE << >>

RECURSIVE RoadlinkPart(_)
RoadlinkPart(n) ==
    IF n = 0 THEN << >> ELSE RoadlinkPart(n - 1) \o RoadlinkContribution(n)

ConfiguredOrder ==
    << "trn-ntwk-street-1", "trn-rami-specialdesignationarea-1",
       "trn-rami-specialdesignationline-1", "trn-rami-specialdesignationpoint-1" >>

\* C5: the returned features are the features of the non-skipped primary
\* collections in configured collection order (street, area, line, point for
\* STREET_INFO), each in source order, followed by the accepted roadlink
\* features in join-list order.
C5_OutputOrder ==
    Returned =>
       /\ ret.features =
             PrimaryPart(Len(upstream)) \o RoadlinkPart(Len(roadlink_ids))
       /\ route_type = STREET_INFO =>
             \A i \in 1 .. 4 : requests[i].collection = ConfiguredOrder[i]

C5_Witness ==
    /\ Returned
    /\ route_type = STREET_INFO
    /\ Len(Contribution(1)) = 2
    /\ Len(Contribution(3)) = 2
    /\ Contribution(1) # Contribution(3)
    /\ SkippedBody(upstream[2])
    /\ Len(RoadlinkPart(Len(roadlink_ids))) = 2

\* the reduction run on the upstream responses in creation order: the
\* accumulators after the first n primary results
RECURSIVE InOrderPrimary(_)
InOrderPrimary(n) ==
    IF n = 0 THEN [all |-> << >>, latest |-> NoneStamp, ids |-> << >>]
    ELSE LET p == InOrderPrimary(n - 1)
             r == ProcessCollection(upstream[n],
                      ScansRoadlinks(variant, route_type, collection_ids[n]),
                      collection_ids[n])
         IN  IF SkipPrimary(upstream[n]) THEN p
             ELSE [all |-> Extend(p.all, r.copy),
                   latest |-> UpdateTimestamp(p.latest, upstream[n]),
                   ids |-> p.ids \o r.ids]

\* ... and after the first n roadlink results
RECURSIVE InOrderRoadlinks(_)
InOrderRoadlinks(n) ==
    IF n = 0 THEN InOrderPrimary(Len(upstream))
    ELSE LET p == InOrderRoadlinks(n - 1)
             result == rl_upstream[p.ids[n]]
         IN  IF SkipRoadlink(result) THEN p
             ELSE [all |-> AppendRoadlink(p.all, result),
                   latest |-> UpdateTimestamp(p.latest, result),
                   ids |-> p.ids]

\* C6: the returned FeatureCollection (features, numberReturned, timeStamp)
\* is the one the responses yield when reduced in creation order, whatever
\* the order in which the primary and the roadlink fetches complete.
C6_Deterministic ==
    Returned =>
       LET final == IF JoinPhase(variant, route_type, InOrderPrimary(Len(upstream)).ids)
                    THEN InOrderRoadlinks(Len(InOrderPrimary(Len(upstream)).ids))
                    ELSE InOrderPrimary(Len(upstream))
       IN  ret = Assemble(final.all, final.latest)

C6_Witness ==
    /\ Returned
    /\ route_type = STREET_INFO
    /\ out_of_order
    /\ feature_results[1] # feature_results[2]
    /\ Len(roadlink_results) = 2
    /\ roadlink_results[1] # roadlink_results[2]
    /\ Len(ret.features) >= 4

\* the usable references of a street feature, in reference order
UsableRef(x) == x.py = "dict" /\ "roadlinkid" \in DOMAIN x.items
RefsOfFeature(f) ==
    IF /\ "properties" \in DOMAIN f.items
       /\ f.items["properties"].py = "dict"
       /\ "roadlinkreference" \in DOMAIN f.items["properties"].items
    THEN LET sel == SelectSeq(
                 f.items["properties"].items["roadlinkreference"].elems, UsableRef)
         IN  [n \in DOMAIN sel |-> sel[n].items["roadlinkid"]]
    ELSE << >>

\* the roadlink ids referenced by the first n features of the street collection
RECURSIVE References(_)
References(n) ==
    IF n = 0 \/ SkippedBody(upstream[1]) THEN << >>
    ELSE References(n - 1) \o RefsOfFeature(upstream[1].items["features"].elems[n])

StreetReferences ==
    IF SkippedBody(upstream[1]) THEN << >>
    ELSE References(Len(upstream[1].items["features"].elems))

\* C7: when the street collection's features reference n roadlink ids and
\* all n roadlink fetches succeed with properties, a STREET_INFO aggregation
\* returns (features of the four primary collections) + n features, the
\* last n being the roadlink features in reference order.
C7_JoinCount ==
    ( /\ Returned
      /\ variant = "api"
      /\ route_type = STREET_INFO
      /\ \A j \in DOMAIN StreetReferences :
            AcceptedRoadlink(rl_upstream[StreetReferences[j]]) )
    => LET n == Len(StreetReferences)
           total == Len(ret.features)
       IN  /\ total = Len(PrimaryPart(4)) + n
           /\ \A j \in 1 .. n :
                 ret.features[total - n + j] =
                    SansGeometry(rl_upstream[StreetReferences[j]])

C7_Witness ==
    /\ Returned
    /\ variant = "api"
    /\ route_type = STREET_INFO
    /\ Len(StreetReferences) = 2
    /\ StreetReferences[1] = StreetReferences[2]
    /\ \A j \in DOMAIN StreetReferences :
          AcceptedRoadlink(rl_upstream[StreetReferences[j]])
    /\ Len(ret.features) = Len(PrimaryPart(4)) + 2

\* the non-empty timeStamp strings of the results that were not skipped
Stamps ==
    ( { upstream[i].items["timeStamp"] :
          i \in { h \in DOMAIN upstream :
                    /\ ~SkippedBody(upstream[h])
                    /\ "timeStamp" \in DOMAIN upstream[h].items } }
      \cup
      { rl_upstream[roadlink_ids[j]].items["timeStamp"] :
          j \in { h \in DOMAIN roadlink_ids :
                    /\ AcceptedRoadlink(rl_upstream[roadlink_ids[h]])
                    /\ "timeStamp" \in DOMAIN rl_upstream[roadlink_ids[h]].items } } )
    \ {NoStamp}

\* C8: the returned timeStamp is the lexicographically greatest timeStamp
\* string among the results that were fetched and not skipped, and the empty
\* string when none of them carried a non-empty one.
C8_LatestTimestamp ==
    Returned =>
       IF Stamps = {} THEN ret.timeStamp = NoStamp
       ELSE /\ ret.timeStamp \in Stamps
            /\ \A t \in Stamps : ~StrGreater(t, ret.timeStamp)

C8_Witness ==
    /\ Returned
    /\ route_type = STREET_INFO
    /\ ~SkippedBody(upstream[1]) /\ upstream[1].items["timeStamp"] = TS06
    /\ ~SkippedBody(upstream[2]) /\ upstream[2].items["timeStamp"] = NoStamp
    /\ ~SkippedBody(upstream[3]) /\ upstream[3].items["timeStamp"] = TS01
    /\ ret.timeStamp = TS06

\* C9: LAND_USE with a non-empty usrn and an absent bbox (None or empty)
\* raises ValueError, and no request is issued.
C9_LandUseNeedsBbox ==
    ( /\ pc # "call"
      /\ Truthy(usrn)
      /\ path_type = LAND_USE
      /\ ~Truthy(bbox) )
    => /\ Raised
       /\ exc.type = "ValueError"
       /\ Truthy(os_key) => exc.msg = "A valid bbox is required for land use queries"
       /\ requests = << >>

C9_Witness ==
    /\ Raised
    /\ Truthy(usrn)
    /\ Truthy(os_key)
    /\ path_type = LAND_USE
    /\ bbox = PyNone
    /\ exc.type = "ValueError"

\* C10: an empty or missing usrn raises ValueError for every path type,
\* before the route type is interpreted, the fetcher is constructed or any
\* request is issued.
C10_UsrnRequired ==
    ( pc # "call" /\ ~Truthy(usrn) )
    => /\ Raised
       /\ exc = ValueError("A valid usrn is required")
       /\ route_type = PyNone
       /\ ~os_data
       /\ requests = << >>

C10_Witness ==
    /\ Raised
    /\ usrn = ""
    /\ path_type = "bogus"
    /\ exc = ValueError("A valid usrn is required")

NoFeaturesFrom(b) ==
    \/ SkippedBody(b)
    \/ /\ b.items["features"].py = "list"
       /\ b.items["features"].elems = << >>

\* C12: when every primary collection is skipped or empty (so that no
\* roadlink is fetched either) the call does not raise and what it returns
\* is a FeatureCollection with numberReturned 0 and no features.
C12_EmptyIsNotAnError ==
    ( /\ upstream # << >>
      /\ \A i \in DOMAIN upstream : NoFeaturesFrom(upstream[i]) )
    => /\ ~Raised
       /\ requests = SubSeq(requests, 1, Len(upstream))
       /\ Returned =>
             /\ ret.type = "FeatureCollection"
             /\ ret.numberReturned = 0
             /\ ret.features = << >>

C12_Witness ==
    /\ Returned
    /\ route_type = STREET_INFO
    /\ IsException(upstream[1])
    /\ SkippedBody(upstream[2]) /\ ~IsException(upstream[2])
    /\ ~SkippedBody(upstream[3]) /\ NoFeaturesFrom(upstream[3])
    /\ NoFeaturesFrom(upstream[4])
    /\ ret.numberReturned = 0
    /\ ret.features = << >>

\* how many times f occurs in the sequence s
Occurrences(f, s) == Cardinality({n \in DOMAIN s : s[n] = f})

\* C13 as stated: no feature occurs more than once in the returned list.
C13_NoDuplicates ==
    Returned =>
       \A m, n \in DOMAIN ret.features :
          ret.features[m] = ret.features[n] => m = n

\* C13, amended: the output is not deduplicated. A feature occurs in the
\* returned list once per occurrence in the non-skipped primary collections
\* plus once per entry of the join list whose roadlink fetch was accepted
\* with that feature, so a roadlink id referenced twice, or one feature
\* returned by two collections, appears twice.
C13_OccurrencesKept ==
    Returned =>
       \A n \in DOMAIN ret.features :
          LET f == ret.features[n]
          IN  Occurrences(f, ret.features) =
                 Occurrences(f, PrimaryPart(Len(upstream)))
                 + Cardinality({j \in DOMAIN roadlink_ids :
                                   RoadlinkContribution(j) = << f >>})

C13_Witness ==
    /\ Returned
    /\ route_type = STREET_INFO
    /\ \E i, j \in DOMAIN upstream :
          /\ i # j
          /\ \E f \in {Contribution(i)[n] : n \in DOMAIN Contribution(i)} :
                Occurrences(f, Contribution(j)) > 0
    /\ \E i, j \in DOMAIN roadlink_ids :
          /\ i # j
          /\ roadlink_ids[i] = roadlink_ids[j]
          /\ AcceptedRoadlink(rl_upstream[roadlink_ids[i]])
          /\ Occurrences(SansGeometry(rl_upstream[roadlink_ids[i]]),
                         ret.features) >= 2

\* C19: all primary fetches are issued before any completes; while some are
\* pending the call neither raises nor returns, whatever the completed ones
\* yielded, and the reduction has not started (nothing appended, no
\* timestamp, no roadlink id); when the reduction runs every slot holds the
\* outcome of its fetch, a result or an exception.
C19_FanOutBarrier ==
    /\ pc = "await_primary" =>
          /\ Len(requests) = Len(collection_ids)
          /\ pending # {}
          /\ \A i \in pending : feature_results[i] = NotDone
          /\ all_features = << >>
          /\ latest_timestamp = NoneStamp
          /\ roadlink_ids = << >>
    /\ pending # {} => pc \in {"await_primary", "await_roadlinks"}
    /\ PrimaryReduced \/ pc = "reduce_primary" =>
          \A i \in DOMAIN upstream : feature_results[i] = upstream[i]

C19_Witness ==
    /\ pc = "await_primary"
    /\ route_type = STREET_INFO
    /\ pending = {1, 4}
    /\ IsException(feature_results[3])
    /\ IsFeatureCollection(feature_results[2])
    /\ Len(requests) = 4

\* the requests that went to the roadlink collection
RoadlinkRequests ==
    {n \in DOMAIN requests : requests[n].collection = RoadlinkCollection}

\* C20: roadlink requests are issued only by a STREET_INFO aggregation,
\* only for a non-empty join list and only after the whole primary
\* reduction; they are exactly one fetch by id per entry of the join list,
\* in join-list order; a LAND_USE aggregation issues none.
C20_JoinPhase ==
    /\ route_type = LAND_USE => RoadlinkRequests = {}
    /\ RoadlinkRequests # {} =>
          /\ route_type = STREET_INFO
          /\ roadlink_ids # << >>
          /\ PrimaryReduced
          /\ RoadlinkRequests =
                Len(collection_ids) + 1 .. Len(collection_ids) + Len(roadlink_ids)
          /\ \A j \in DOMAIN roadlink_ids :
                LET q == requests[Len(collection_ids) + j]
                IN  /\ q.path = "items/{id}"
                    /\ q.feature_id = roadlink_ids[j]
                    /\ DOMAIN q.params = {}
    /\ pc \in {"await_roadlinks", "reduce_roadlinks"} => RoadlinkRequests # {}

\* the call of get_bbox_from_usrn returned for a stored geometry
Resolved == bpc = "returned" /\ store.state = "row"

\* n is an integer nearest to the fixed point number v
Nearest(n, v) == 2 * Abs(n * Scale - v) <= Scale

\* extent of the stored geometry along x and along y
Extent(g) == << Bounds(g)[3] - Bounds(g)[1], Bounds(g)[4] - Bounds(g)[2] >>

\* the stored geometry is a point or a segment parallel to an axis
AxisParallel(g) == Extent(g)[1] = 0 \/ Extent(g)[2] = 0

\* C16 as stated: for a USRN present in the store the result is four
\* integers, each the corresponding bound of the buffered geometry rounded
\* to the nearest integer, with minx <= maxx and miny <= maxy, and the
\* width and the height are the geometry's extent plus 2d, rounded.
C16_RoundedExtent ==
    Resolved =>
       LET t == bbox_tuple
           b == BufferedBounds(store.geometry, buffer_distance)
           e == Extent(store.geometry)
       IN  /\ \A i \in 1 .. 4 : t[i] \in Int /\ Nearest(t[i], b[i])
           /\ t[1] <= t[3] /\ t[2] <= t[4]
           /\ Nearest(t[3] - t[1], e[1] + 2 * buffer_distance * Scale)
           /\ Nearest(t[4] - t[2], e[2] + 2 * buffer_distance * Scale)

\* C16, amended: the result is four integers, each the corresponding bound
\* of the buffered geometry rounded to the nearest integer (a tie to the
\* even one), with minx <= maxx and miny <= maxy.  Width and height are not
\* the rounded extent plus 2d: each coordinate is rounded on its own, so
\* for a point or an axis-parallel segment they are within 1 of the extent
\* plus 2d, and for an oblique segment the square caps make them larger, up
\* to the extent plus 3d.
C16_RoundedBounds ==
    Resolved =>
       LET t == bbox_tuple
           b == BufferedBounds(store.geometry, buffer_distance)
           e == Extent(store.geometry)
           d2 == 2 * buffer_distance * Scale
       IN  /\ \A i \in 1 .. 4 :
                 /\ t[i] \in Int
                 /\ Nearest(t[i], b[i])
                 /\ 2 * Abs(t[i] * Scale - b[i]) = Scale => t[i] % 2 = 0
           /\ t[1] <= t[3] /\ t[2] <= t[4]
           /\ \A a \in 1 .. 2 :
                 LET w == (t[a + 2] - t[a]) * Scale
                 IN  /\ w >= e[a] + d2 - Scale
                     /\ w <= e[a] + d2 + buffer_distance * Scale + Scale
                     /\ AxisParallel(store.geometry) => w <= e[a] + d2 + Scale

C16_Witness ==
    /\ Resolved
    /\ store.geometry = LineString(<< 2, 2 >>, << 3, 2 >>)
    /\ buffer_distance = DefaultBufferDistance
    /\ bbox_tuple = << -50, -50, 51, 50 >>

\* the call of get_bbox_from_usrn is over
ResolverOver == bpc \in {"returned", "raised"}

\* C17: a call of get_bbox_from_usrn executes at most one store query, and
\* none when the configuration is unset; when the configuration is unset,
\* when no row matches and when the query fails, the caller gets the very
\* exception that was raised (not wrapped, not replaced) and no bbox.
C17_ResolverFailure ==
    (ResolverOver /\ store # StoreUnavailable) =>
       /\ store_queries <= 1
       /\ ConfigMissing(usrn_schema, usrn_table) =>
             /\ bpc = "raised"
             /\ bexc = ValueError("Missing schema or table name environment variables")
             /\ store_queries = 0
             /\ bbox_tuple = << >>
       /\ (~ConfigMissing(usrn_schema, usrn_table) /\ store = StoreEmpty) =>
             /\ bpc = "raised"
             /\ bexc = ValueErrorOf("No geometry found for USRN: ", usrn)
             /\ store_queries = 1
             /\ bbox_tuple = << >>
       /\ (~ConfigMissing(usrn_schema, usrn_table) /\ store = StoreError) =>
             /\ bpc = "raised"
             /\ bexc = Raise("Exception")
             /\ store_queries = 1
             /\ bbox_tuple = << >>

C17_Witness ==
    /\ bpc = "raised"
    /\ store = StoreError
    /\ usrn_schema = "set" /\ usrn_table = "set"
    /\ bexc = Raise("Exception")
    /\ store_queries = 1

\* the response of the handler has been sent
Responded == hpc = "responded"

\* the exceptions that report absent deployment configuration
SchemaOrTableUnset ==
    ValueError("Missing schema or table name environment variables")
ApiKeyUnset == ValueError("An API key must be provided")

\* C14: a request during which the schema/table names or the API key are
\* found unset is answered with a server error (5xx), not with a client
\* error (4xx).
C14_ConfigurationIsServerError ==
    (Responded /\ hexc \in {SchemaOrTableUnset, ApiKeyUnset}) =>
       status >= 500 /\ status <= 599

\* the validation errors, by the place that raises them
ValidationErrors ==
    { ValueError("Missing required parameter: usrn"),
      ValueError("All parameters must be provided"),
      ValueError("A valid usrn is required"),
      ValueError("A valid bbox is required for land use queries") }
    \cup {ValueErrorOf("Unsupported path type: ", p) : p \in PathTypes}
    \cup {ValueErrorOf("is not a valid RouteType", p) : p \in PathTypes}

\* no entry of the sequence occurs twice
NoRepeat(q) == \A m, n \in DOMAIN q : q[m] = q[n] => m = n

StageAt(name) ==
    IF \E n \in DOMAIN stages : stages[n] = name
    THEN CHOOSE n \in DOMAIN stages : stages[n] = name
    ELSE 0

\* the order of the stages that holds of every handler: the aggregator is
\* invoked only after a resolver that was called has returned a bbox, the
\* summarizer only after the aggregator has returned, and after a stage
\* has raised nothing more is invoked
StageOrder ==
    /\ (StageAt("aggregator") > 0 /\ StageAt("resolver") > 0) =>
          /\ StageAt("resolver") < StageAt("aggregator")
          /\ bpc = "returned"
          /\ bbox = FormatBBox(bbox_tuple)
    /\ (StageAt("aggregator") > 0 /\ CallsResolver(variant, route)) =>
          StageAt("resolver") > 0
    /\ StageAt("summarizer") > 0 =>
          /\ StageAt("aggregator") > 0
          /\ StageAt("aggregator") < StageAt("summarizer")
          /\ pc = "returned"
    /\ hexc # NoException =>
          /\ hpc \in {"except", "responded"}
          /\ bexc # NoException => stages = << "resolver" >>
          /\ exc # NoException => stages[Len(stages)] = "aggregator"
          /\ hexc.msg \in {"street_manager", "pre_process", "summarizer", "tts"}
                => stages[Len(stages)] = hexc.msg

\* C18 as stated: the resolver is called only for the land-use route and
\* never for the street-info route; the aggregator is invoked only after
\* the resolver (when used) has returned successfully, the summarizer only
\* after the aggregator has returned, and nothing after a stage that raised.
C18_ControlFlow ==
    /\ StageAt("resolver") > 0 => route = "land-use-llm"
    /\ route = "street-info-llm" => bpc = "idle"
    /\ StageOrder

\* C18, amended: in backend/api the resolver is called only for the
\* land-use route and never for the street-info route; the legacy
\* robyn_lib dispatcher calls it for the street-info route as well.  The
\* aggregator is invoked only after the resolver (when used) has returned
\* successfully, the summarizer only after the aggregator has returned,
\* and nothing is invoked after a stage that raised.
C18_ControlFlowByVariant ==
    /\ variant = "api" =>
          /\ StageAt("resolver") > 0 => route = "land-use-llm"
          /\ route = "street-info-llm" => bpc = "idle"
    /\ (variant = "robyn" /\ hpc \notin {"start", "resolve"} /\ Truthy(usrn)) =>
          StageAt("resolver") = 1
    /\ StageOrder

C18_Witness ==
    /\ Responded
    /\ variant = "robyn"
    /\ route = "street-info-llm"
    /\ status = 200
    /\ stages = << "resolver", "street_manager", "aggregator", "pre_process",
                   "summarizer" >>
    /\ ret.numberReturned > 0

\* the non-empty timeStamps of the first n primary results, skipped ones
\* left out
PrimaryStamps(n) ==
    { upstream[i].items["timeStamp"] :
        i \in { h \in 1 .. n :
                  /\ ~SkippedBody(upstream[h])
                  /\ "timeStamp" \in DOMAIN upstream[h].items } } \ {NoStamp}

\* the non-empty timeStamps of the accepted ones of the first n roadlink
\* results
RoadlinkStamps(n) ==
    { rl_upstream[roadlink_ids[j]].items["timeStamp"] :
        j \in { h \in 1 .. n :
                  /\ AcceptedRoadlink(rl_upstream[roadlink_ids[h]])
                  /\ "timeStamp" \in DOMAIN rl_upstream[roadlink_ids[h]].items } }
    \ {NoStamp}

\* the entries among the first n of the join list whose fetch was accepted
AcceptedUpTo(n) ==
    {j \in 1 .. n : AcceptedRoadlink(rl_upstream[roadlink_ids[j]])}

\* the number of roadlink results the loop has been through
RoadlinksSeen ==
    IF pc = "reduce_roadlinks" THEN k - 1
    ELSE IF Returned /\ roadlink_results # << >> THEN Len(roadlink_ids)
    ELSE 0

\* C21: after any number of iterations of the roadlink loop, the features
\* appended behind the primary ones are exactly the entries seen so far
\* whose fetch yielded a mapping with `properties`, geometry removed, in
\* join-list order; an entry that raised, is no mapping or has no
\* `properties` adds no feature and no timestamp, and the entries after it
\* are still appended.
C21_PerIdTolerance ==
    (pc = "reduce_roadlinks" \/ (Returned /\ roadlink_results # << >>)) =>
       LET n == RoadlinksSeen
           base == Len(PrimaryPart(Len(upstream)))
       IN  /\ Len(all_features) = base + Cardinality(AcceptedUpTo(n))
           /\ \A j \in AcceptedUpTo(n) :
                 all_features[base + Cardinality(AcceptedUpTo(j))] =
                    SansGeometry(rl_upstream[roadlink_ids[j]])
           /\ latest_timestamp \in
                 {NoneStamp} \cup PrimaryStamps(Len(upstream)) \cup RoadlinkStamps(n)

C21_Witness ==
    /\ Returned
    /\ Len(roadlink_ids) = 2
    /\ roadlink_ids[1] # roadlink_ids[2]
    /\ rl_upstream[roadlink_ids[1]] = Dict([id |-> roadlink_ids[1], timeStamp |-> TS09])
    /\ AcceptedRoadlink(rl_upstream[roadlink_ids[2]])
    /\ ret.features[Len(ret.features)] = SansGeometry(rl_upstream[roadlink_ids[2]])
    /\ ret.timeStamp # TS09

\* C22: once the street collection has been reduced, the join list of a
\* STREET_INFO aggregation is every roadlinkid of the mappings in
\* properties.roadlinkreference of the street collection's features, in
\* feature order then reference order, one entry per occurrence; the other
\* collections, entries that are no mappings and mappings without
\* roadlinkid add nothing, and it is empty for LAND_USE (and in the
\* robyn_lib variant, which has no join).
C22_JoinList ==
    /\ (pc = "reduce_primary" /\ k = 1) => roadlink_ids = << >>
    /\ ((pc = "reduce_primary" /\ k >= 2) \/ PrimaryReduced) =>
          roadlink_ids = IF variant = "api" /\ route_type = STREET_INFO
                         THEN StreetReferences
                         ELSE << >>

C22_Witness ==
    /\ PrimaryReduced
    /\ variant = "api"
    /\ route_type = STREET_INFO
    /\ ~SkippedBody(upstream[1])
    /\ upstream[1].items["features"].elems = << FeatureB, FeatureC >>
    /\ ~SkippedBody(upstream[3])
    /\ upstream[3].items["features"].elems = << FeatureA, FeatureB >>
    /\ roadlink_ids = << 1, 1 >>

\* the requests that went to a primary collection
PrimaryRequests ==
    {n \in DOMAIN requests : requests[n].collection # RoadlinkCollection}

\* C23: a STREET_INFO aggregation issues exactly four primary requests, one
\* per configured collection id, each to the item listing with the single
\* parameter filter = usrn=<usrn>, whatever bbox, bbox_crs and crs the
\* caller passed; a LAND_USE aggregation issues exactly one, to lus-fts-site-1,
\* with the bbox passed and with bbox-crs and crs, each the value passed or,
\* when none (or an empty one) was passed, the EPSG 27700 URI.
C23_QuerySet ==
    pc \in {"await_primary", "reduce_primary", "await_roadlinks",
            "reduce_roadlinks", "returned"} =>
       /\ route_type = STREET_INFO =>
             /\ PrimaryRequests = 1 .. 4
             /\ \A i \in 1 .. 4 :
                   /\ requests[i].collection = ConfiguredOrder[i]
                   /\ requests[i].path = "items"
                   /\ DOMAIN requests[i].params = {"filter"}
                   /\ requests[i].params["filter"] = << "usrn", usrn >>
       /\ route_type = LAND_USE =>
             /\ PrimaryRequests = {1}
             /\ requests[1].collection = "lus-fts-site-1"
             /\ requests[1].path = "items"
             /\ DOMAIN requests[1].params = {"bbox", "bbox-crs", "crs"}
             /\ requests[1].params["bbox"] = << bbox >>
             /\ requests[1].params["bbox-crs"] =
                   << IF bbox_crs \in {PyNone, ""} THEN DefaultCrs ELSE bbox_crs >>
             /\ requests[1].params["crs"] =
                   << IF crs \in {PyNone, ""} THEN DefaultCrs ELSE crs >>
       /\ route_type \in {STREET_INFO, LAND_USE}

C23_Witness ==
    /\ Returned
    /\ route_type = LAND_USE
    /\ bbox_crs = "http://www.opengis.net/def/crs/EPSG/0/4326"
    /\ crs = ""
    /\ requests[1].params["bbox-crs"] = << bbox_crs >>
    /\ requests[1].params["crs"] = << DefaultCrs >>

\* C24: every fetch issues one network request and none is issued again
\* after a failure: while and after the primary gather the requests are one
\* per collection of the query set, while and after the roadlink gather one
\* more per entry of the join list, and a returned aggregation has issued
\* (size of the query set) + (length of the join list) requests whatever
\* number of them failed.
C24_NoRetry ==
    /\ pc \in {"await_primary", "reduce_primary"} =>
          Len(requests) = Len(collection_ids)
    /\ pc \in {"await_roadlinks", "reduce_roadlinks", "returned"} =>
          Len(requests) = Len(collection_ids) + Len(roadlink_ids)
    /\ Len(requests) <= Len(collection_ids) + Len(roadlink_ids)
    /\ \A n \in DOMAIN requests :
          requests[n] =
             IF n <= Len(collection_ids)
             THEN PrimaryCall(route_type, collection_ids[n], usrn, bbox,
                              bbox_crs, crs)
             ELSE RoadlinkCall(roadlink_ids[n - Len(collection_ids)])

C24_Witness ==
    /\ Returned
    /\ route_type = STREET_INFO
    /\ IsException(upstream[2])
    /\ IsException(upstream[4])
    /\ Len(roadlink_ids) = 2
    /\ IsException(rl_upstream[roadlink_ids[1]])
    /\ Len(requests) = 6

\* C27: a primary result that is an error, is not a mapping or lacks
\* `features` contributes nothing: the iteration that meets it moves on to
\* the next result and leaves the feature list, the running timestamp (even
\* when the result carries a timeStamp) and the join list as they were; and
\* when the street collection of a STREET_INFO aggregation is skipped the
\* join list stays empty and no roadlink request is ever issued.
C27_SkippedContributesNothing ==
    /\ [][ ( /\ pc = "reduce_primary"
             /\ k <= Len(collection_ids)
             /\ SkippedBody(feature_results[k]) )
           => /\ pc' = "reduce_primary"
              /\ k' = k + 1
              /\ all_features' = all_features
              /\ latest_timestamp' = latest_timestamp
              /\ roadlink_ids' = roadlink_ids ]_vars
    /\ []( ( /\ route_type = STREET_INFO
             /\ upstream # << >>
             /\ SkippedBody(upstream[1]) )
           => /\ roadlink_ids = << >>
              /\ RoadlinkRequests = {}
              /\ pc \notin {"await_roadlinks", "reduce_roadlinks"} )

C27_Witness ==
    /\ variant = "api"
    /\ route_type = STREET_INFO
    /\ Returned
    /\ upstream[1] = Dict([timeStamp |-> TS09])
    /\ ~SkippedBody(upstream[2])
    /\ ret.timeStamp # TS09
    /\ Len(requests) = 4

\* the number of primary results the loop has been through
PrimarySeen ==
    IF pc = "reduce_primary" THEN k - 1
    ELSE IF pc \in {"idle", "call", "fan_out", "await_primary"} THEN 0
    ELSE Len(upstream)

\* C28: throughout both reductions the running timestamp is unset or the
\* non-empty timeStamp of a result already processed and not skipped; a
\* step never unsets it and replaces it only by a strictly greater string;
\* once the primary reduction is over it is no smaller than the timeStamp
\* of any non-skipped collection, one with zero features included.
C28_RunningTimestamp ==
    /\ [](latest_timestamp \in
             {NoneStamp} \cup PrimaryStamps(PrimarySeen)
                         \cup RoadlinkStamps(RoadlinksSeen))
    /\ [][ \/ latest_timestamp' = latest_timestamp
           \/ /\ latest_timestamp = NoneStamp
              /\ latest_timestamp' # NoStamp
           \/ /\ latest_timestamp # NoneStamp
              /\ latest_timestamp' # NoneStamp
              /\ StrGreater(latest_timestamp', latest_timestamp) ]_vars
    /\ [](PrimaryReduced =>
             \A t \in PrimaryStamps(Len(upstream)) :
                 /\ latest_timestamp # NoneStamp
                 /\ ~StrGreater(t, latest_timestamp))

C28_Witness ==
    /\ Returned
    /\ route_type = STREET_INFO
    /\ upstream[1] = Dict([features |-> List(<< >>), timeStamp |-> TS06])
    /\ upstream[2] = Dict([features |-> List(<< >>), timeStamp |-> TS06])
    /\ upstream[3] = Dict([timeStamp |-> TS09])
    /\ IsException(upstream[4])
    /\ ret.numberReturned = 0
    /\ ret.timeStamp = TS06

\* the features of the non-skipped upstream results, geometry included
SourceFeatures ==
    UNION { {upstream[i].items["features"].elems[n] :
                n \in DOMAIN upstream[i].items["features"].elems} :
            i \in {h \in DOMAIN upstream : IsFeatureCollection(upstream[h])} }
    \cup { rl_upstream[r] :
            r \in {h \in DOMAIN rl_upstream : AcceptedRoadlink(rl_upstream[h])} }

\* C29: stripping the geometry is a copy and a delete that changes nothing
\* else: every feature of the output has the top-level keys and values of
\* an upstream feature, `geometry` excepted, and the result objects the
\* fetches handed back are the same after the aggregation as before it:
\* their features still carry their `geometry`.
C29_CopyAndDelete ==
    /\ Returned =>
          \A n \in DOMAIN ret.features :
             \E f \in SourceFeatures :
                /\ DOMAIN ret.features[n].items = (DOMAIN f.items) \ {"geometry"}
                /\ \A x \in DOMAIN ret.features[n].items :
                      ret.features[n].items[x] = f.items[x]
    /\ (PrimaryReduced \/ pc = "reduce_primary") => feature_results = upstream
    /\ (pc = "reduce_roadlinks" \/ (Returned /\ roadlink_results # << >>)) =>
          \A j \in DOMAIN roadlink_results :
             roadlink_results[j] = rl_upstream[roadlink_ids[j]]

C29_Witness ==
    /\ Returned
    /\ route_type = STREET_INFO
    /\ upstream[1] = Dict([features |-> List(<< FeatureA, FeatureB >>),
                           timeStamp |-> TS01])
    /\ ret.features[1] = SansGeometry(FeatureA)
    /\ Has(FeatureA, "geometry")
    /\ Has(feature_results[1].items["features"].elems[1], "geometry")
    /\ \E j \in DOMAIN roadlink_results :
          /\ AcceptedRoadlink(roadlink_results[j])
          /\ Has(roadlink_results[j], "geometry")
          /\ \E n \in DOMAIN ret.features :
                ret.features[n] = SansGeometry(roadlink_results[j])

\* the fetches of the two phases that are never answered
PrimaryHung == {i \in DOMAIN upstream : upstream[i] = Hung}
RoadlinkHung ==
    {j \in DOMAIN roadlink_ids :
        roadlink_ids[j] \in DOMAIN rl_upstream
        /\ rl_upstream[roadlink_ids[j]] = Hung}

\* C25: the aggregation gets past a gather if and only if every fetch of
\* that phase completes.  With every fetch of the phase answered (by a
\* result or an error) the gather is eventually left and the call goes on
\* to return or raise; with one fetch never answered the call stays at the
\* gather for ever, whatever its siblings do: nothing times out or cancels.
C25_Termination ==
    /\ []((pc = "reduce_primary" \/ PrimaryReduced) => PrimaryHung = {})
    /\ []((pc = "reduce_roadlinks" \/ (Returned /\ roadlink_results # << >>))
             => RoadlinkHung = {})
    /\ [][ (pc = "await_primary" /\ PrimaryHung # {}) => pc' = "await_primary" ]_vars
    /\ [][ (pc = "await_roadlinks" /\ RoadlinkHung # {})
              => pc' = "await_roadlinks" ]_vars
    /\ (pc = "await_primary" /\ PrimaryHung = {})
          ~> (Returned \/ Raised \/ pc = "await_roadlinks")
    /\ (pc = "await_roadlinks" /\ RoadlinkHung = {}) ~> (Returned \/ Raised)

C25_Witness ==
    /\ route_type = STREET_INFO
    /\ pc = "await_primary"
    /\ upstream[3] = Hung
    /\ pending = {3}
    /\ feature_results[1] = ExceptionValue
    /\ feature_results[2] = upstream[2]
    /\ feature_results[4] = upstream[4]

RECURSIVE SumOver(_, _)
SumOver(f, S) ==
    IF S = {} THEN 0
    ELSE LET x == CHOOSE y \in S : TRUE
         IN  f[x] + SumOver(f, S \ {x})

\* the requests to an endpoint that are in flight, and those that are over
InFlight(e) == {r \in Requests : mreq[r].at = "downstream" /\ mreq[r].path = e}
Over(e) == {r \in Requests : mreq[r].at \in {"returned", "raised"} /\ mreq[r].path = e}

\* C30: for a path that is not excluded the in-progress gauge equals the
\* number of requests in flight (so it is 0 when none is) and
\* http_requests_total counts each request that is over exactly once,
\* whether the downstream handler returned or raised; the excluded paths
\* leave every metric as it was.
C30_MetricsBalanced ==
    /\ \A e \in RequestPaths \ EXCLUDED_PATHS :
          /\ in_progress[e] = Cardinality(InFlight(e))
          /\ SumOver(requests_total, {e} \X StatusGroups) = Cardinality(Over(e))
          /\ duration_count[e] = Cardinality(Over(e))
          /\ \A g \in StatusGroups :
                requests_total[<< e, g >>] =
                   Cardinality({r \in Over(e) :
                      normalise_status_code(IF mreq[r].at = "raised" THEN 500
                                            ELSE mreq[r].status) = g})
    /\ \A e \in EXCLUDED_PATHS :
          /\ in_progress[e] = 0
          /\ duration_count[e] = 0
          /\ SumOver(requests_total, {e} \X StatusGroups) = 0
          /\ SumOver(errors_total, {e} \X ErrorTypes \X UsrnStatuses) = 0
          /\ SumOver(exceptions_total, {e} \X ExceptionTypes) = 0

C30_Witness ==
    /\ mreq[1].at = "raised"
    /\ mreq[1].path = "/street-info-llm"
    /\ mreq[2].at = "downstream"
    /\ mreq[2].path = "/street-info-llm"
    /\ in_progress["/street-info-llm"] = 1
    /\ requests_total[<< "/street-info-llm", "5xx" >>] = 1

C30_WitnessExcluded ==
    /\ mreq[1].at = "returned"
    /\ mreq[1].path = "/healthz"
    /\ mreq[2].at = "raised"
    /\ mreq[2].path = "/metrics"

\* what a call of path type p returns when it runs alone
Alone(p) ==
    LET cids == CollectionIds(p)
        a1 == PrimaryLoop(NewAccumulators, variant, p, cids,
                          [i \in 1 .. Len(cids) |-> world.primary[cids[i]]])
        a2 == IF JoinPhase(variant, p, a1.roadlink_ids)
              THEN RoadlinkLoop(a1, a1.roadlink_ids,
                                [j \in 1 .. Len(a1.roadlink_ids) |->
                                    world.roadlink[a1.roadlink_ids[j]]])
              ELSE a1
    IN  Assemble(a2.all_features, a2.latest_timestamp)

\* C26: whatever the interleaving of the calls, each fetch fills the slot
\* of its own call and position and nothing else, and a call that returns
\* returns the FeatureCollection it returns when it runs alone against the
\* same upstream answers.
C26_Isolation ==
    \A c \in Calls :
       /\ \A i \in DOMAIN calls[c].results :
             calls[c].results[i] =
                IF i \in calls[c].pending /\ calls[c].at = "await_primary"
                THEN NotDone
                ELSE world.primary[CollectionIds(calls[c].path_type)[i]]
       /\ \A j \in DOMAIN calls[c].rl_results :
             calls[c].rl_results[j] =
                IF j \in calls[c].pending THEN NotDone
                ELSE world.roadlink[calls[c].fetch_ids[j]]
       /\ calls[c].at = "returned" => calls[c].ret = Alone(calls[c].path_type)
       /\ calls[c].at # "raised"

C26_Witness ==
    /\ calls[1].at = "returned"
    /\ calls[1].path_type = STREET_INFO
    /\ calls[1].overlapped
    /\ calls[1].ret.numberReturned = 4 + MaxRoadlinks
    /\ calls[2].at = "returned"
    /\ calls[2].path_type = LAND_USE
    /\ calls[2].ret.numberReturned = 2

====
